---- MODULE Spec2Model ----
(***************************************************************************)
(* Model of the panel's ledger (web/models.py) and of the request handlers *)
(* that drive it (web/app.py): users, referrals, traffic accounting,       *)
(* payments.  The SQLite store is one record `db` (the committed state);   *)
(* a connection that has opened a write transaction works on the private   *)
(* copy `wtx` until it commits.                                            *)
(***************************************************************************)
EXTENDS Integers, Sequences, FiniteSets, TLC

VARIABLES
    db,      \* the committed store: what a fresh connection reads
    now,     \* the wall clock, in ticks
    last,    \* the most recent request and its response
    conn,    \* per connection: the running handler, its position and locals
    writer,  \* the connection holding SQLite's write lock, or NoConn
    wtx,     \* the uncommitted store of the connection holding the write lock
    answers  \* history: per handler, argument and status, the responses sent

vars == <<db, now, last, conn, writer, wtx, answers>>

\* what the requests served one at a time leave alone
conc == <<conn, writer, wtx, answers>>

-----------------------------------------------------------------------------
(* Bounds of the model *)

MaxUsers == 3
MaxTime == 3
TicksPerDay == 2
MaxPayments == 2
MaxLogs == 2
MaxRequests == 3
MaxExpires == 8

Codes == {"a", "b", "c"}
Nicknames == {"bob"}
Invoices == {"i1", "i2"}
Conns == {"c1", "c2"}
NoConn == "none"
NoCode == ""

-----------------------------------------------------------------------------
(* Time and its textual forms.  A stored expiry is the text Python's       *)
(* isoformat() writes, "YYYY-MM-DDTHH:MM:SS.ffffff+00:00"; SQLite's        *)
(* datetime('now') is "YYYY-MM-DD HH:MM:SS".  Both are modelled as the     *)
(* triple <<date field, separator character, time-of-day field>>: the      *)
(* fields are fixed-width and zero-padded, so they compare as text the way *)
(* their numbers compare.                                                  *)

SepT == 84
SepSpace == 32
NULL == <<>>

IsoFormat(t) == <<t \div TicksPerDay, SepT, t % TicksPerDay>>

FromIsoFormat(x) == x[1] * TicksPerDay + x[3]

SqlDatetimeNow(t) == <<t \div TicksPerDay, SepSpace, t % TicksPerDay>>

\* SQLite's > on two TEXT values: bytewise, left to right
TextGreater(a, b) ==
    \/ a[1] > b[1]
    \/ a[1] = b[1] /\ a[2] > b[2]
    \/ a[1] = b[1] /\ a[2] = b[2] /\ a[3] > b[3]

\* strftime("%Y-%m-%d") of the clock: the UTC calendar day
\* (mutant) strftime("%Y-%m"): the month instead of the day
ThisMonth(t) == t \div (TicksPerDay * 31)

Today(t) == t \div TicksPerDay

Timedelta(days) == days * TicksPerDay

Max(a, b) == IF a >= b THEN a ELSE b

-----------------------------------------------------------------------------
(* Settings *)

\* the settings table: the values an administrator has saved, in days of the
\* model's clock and megabytes of the model's traffic; the device limits are
\* the seeded defaults
SavedSettings ==
    [trial_days |-> 1, referral_bonus_days |-> 1, free_daily_traffic_mb |-> 1,
     free_device_limit |-> 2, vip_device_limit |-> 5, vip_duration_days |-> 1]

BonusChoices == {1, 2}

get_setting(s, key) == s.settings[key]

set_setting(s, key, value) == [s EXCEPT !.settings[key] = value]

-----------------------------------------------------------------------------
(* The store *)

EmptyFn == [x \in {} |-> 0]

\* the store init_db leaves: the tables empty, the default settings seeded.
\* bonus_log is history kept with the store: the (referrer, referred) pairs
\* whose referrer extension the store contains.

\* the row of the node n1, registered with its id from the address ip1 at
\* time 0 with an empty link
InstalledNode ==
    [node_name |-> <<"N">>, server_ip |-> "ip1", status |-> "online",
     vless_link |-> <<>>, vless_link_template |-> <<>>, last_seen |-> 0]

EmptyStore ==
    [users |-> EmptyFn, user_seq |-> 0,
     payments |-> EmptyFn, payment_seq |-> 0,
     referrals |-> {},
     daily_traffic |-> EmptyFn, daily_seq |-> 0,
     traffic_logs |-> EmptyFn, log_seq |-> 0,
     nodes |-> {"n1"},
     node_rows |-> [n \in {"n1"} |-> InstalledNode],
     settings |-> SavedSettings,
     bonus_log |-> {}]

Remove(f, S) == [x \in DOMAIN f \ S |-> f[x]]

get_user(s, user_id) == IF user_id \in DOMAIN s.users THEN s.users[user_id] ELSE NULL

UsersByCode(s, code) == {u \in DOMAIN s.users : s.users[u].referral_code = code}

get_user_by_code(s, code) ==
    IF UsersByCode(s, code) = {} THEN 0 ELSE CHOOSE u \in UsersByCode(s, code) : TRUE

\* the codes _gen_referral_code can return: those no user row carries
gen_referral_code(s) == {c \in Codes : UsersByCode(s, c) = {}}

\* _gen_referral_code can raise: every draw can hit a code some row carries
gen_can_exhaust(s) == \E c \in Codes : UsersByCode(s, c) # {}

UsersByUuid(s, x) == {u \in DOMAIN s.users : s.users[u].uuid = x}

StoredUuids(s) == {s.users[u].uuid : u \in DOMAIN s.users}

\* the values uuid.uuid4() can return, given the ledger.  Only the equality of
\* two uuids is ever observed, so the draws are each value in existence (a
\* collision) and one representative of all the others: the number of the
\* next row, which no row has carried.
uuid4(s) == StoredUuids(s) \cup {s.user_seq + 1}

\* a request and its response: the handler, its arguments, whether it succeeded
Req(op) ==
    [op |-> op, uid |-> 0, code |-> NoCode, nickname |-> "", inv |-> "",
     batch |-> <<>>, days |-> 0, tier |-> "", fields |-> <<>>, http |-> <<>>,
     ok |-> TRUE]

-----------------------------------------------------------------------------
(* Users: create_user, extend_subscription, delete_user *)

\* (mutant) the referrer's period restarts from the stored expiry even when it is past
ReferrerNewExpiresNoClamp(base, bonus, t) ==
    LET base_dt == IF base # NULL THEN FromIsoFormat(base) ELSE t
    IN  IsoFormat(base_dt + Timedelta(bonus))

\* the expiry create_user writes for the referrer: max(now, stored expiry) + bonus
ReferrerNewExpires(base, bonus, t) ==
    LET base_dt == IF base # NULL THEN FromIsoFormat(base) ELSE t
        clamped == IF base_dt < t THEN t ELSE base_dt
    IN  IsoFormat(clamped + Timedelta(bonus))

InsertUserSeeded(s, user_uuid, nickname, ref_code, referred_by, t) ==
    LET id == s.user_seq + 1
        row == [uuid |-> user_uuid, nickname |-> nickname, tier |-> "free", status |-> "active",
                device_limit |-> SavedSettings["free_device_limit"],
                daily_traffic_limit_mb |-> SavedSettings["free_daily_traffic_mb"],
                subscription_expires_at |->
                    IsoFormat(t + Timedelta(SavedSettings["trial_days"])),
                referral_code |-> ref_code, referred_by |-> referred_by]
    IN  [s EXCEPT !.user_seq = id, !.users = (id :> row) @@ s.users]

InsertUser(s, user_uuid, nickname, ref_code, referred_by, t) ==
    LET id == s.user_seq + 1
        row == [uuid |-> user_uuid, nickname |-> nickname, tier |-> "free", status |-> "active",
                device_limit |-> get_setting(s, "free_device_limit"),
                daily_traffic_limit_mb |-> get_setting(s, "free_daily_traffic_mb"),
                subscription_expires_at |->
                    IsoFormat(t + Timedelta(get_setting(s, "trial_days"))),
                referral_code |-> ref_code, referred_by |-> referred_by]
    IN  [s EXCEPT !.user_seq = id, !.users = (id :> row) @@ s.users]

\* (mutant) the referral row is never written
IgnoreReferral(rows, referrer_id, referred_id, bonus) == rows

\* INSERT OR IGNORE INTO referrals: UNIQUE(referrer_id, referred_id)
InsertOrIgnoreReferral(rows, referrer_id, referred_id, bonus) ==
    IF \E r \in rows : r.referrer_id = referrer_id /\ r.referred_id = referred_id
    THEN rows
    ELSE rows \cup {[referrer_id |-> referrer_id, referred_id |-> referred_id,
                     bonus_days |-> bonus]}

\* (mutant) the referrer is extended for the first referral only
ApplyReferralBonusOnce(s, referred_by, user_id, t) ==
    LET bonus == get_setting(s, "referral_bonus_days")
        base == s.users[referred_by].subscription_expires_at
    IN  [s EXCEPT
            !.referrals = InsertOrIgnoreReferral(@, referred_by, user_id, bonus),
            !.users[referred_by].subscription_expires_at =
                IF \E r \in s.referrals : r.referrer_id = referred_by
                THEN base ELSE ReferrerNewExpires(base, bonus, t),
            !.bonus_log = @ \cup {<<referred_by, user_id>>}]

\* create_user: the Referral row and the extension of the referrer
ApplyReferralBonus(s, referred_by, user_id, t) ==
    LET bonus == get_setting(s, "referral_bonus_days")
        base == s.users[referred_by].subscription_expires_at
    IN  [s EXCEPT
            !.referrals = InsertOrIgnoreReferral(@, referred_by, user_id, bonus),
            !.users[referred_by].subscription_expires_at =
                ReferrerNewExpires(base, bonus, t),
            !.bonus_log = @ \cup {<<referred_by, user_id>>}]

\* the referrer create_user resolves: 0 (None) without a code or without a match
ResolveReferrer(s, referral_code_used) ==
    IF referral_code_used = NoCode THEN 0 ELSE get_user_by_code(s, referral_code_used)

NoError == ""

\* (mutant) the users table without its UNIQUE constraints
InsertUserErrorNoUnique(s, user_uuid, ref_code, referred_by) ==
    IF referred_by # 0 /\ referred_by \notin DOMAIN s.users
    THEN "FOREIGN KEY constraint failed"
    ELSE NoError

\* the exception INSERT INTO users raises, if any: uuid and referral_code are
\* UNIQUE, referred_by REFERENCES users(id)
InsertUserError(s, user_uuid, ref_code, referred_by) ==
    IF UsersByUuid(s, user_uuid) # {}
    THEN "UNIQUE constraint failed: users.uuid"
    ELSE IF UsersByCode(s, ref_code) # {}
    THEN "UNIQUE constraint failed: users.referral_code"
    ELSE IF referred_by # 0 /\ referred_by \notin DOMAIN s.users
    THEN "FOREIGN KEY constraint failed"
    ELSE NoError

InsertUserFails(s, user_uuid, ref_code, referred_by) ==
    InsertUserError(s, user_uuid, ref_code, referred_by) # NoError

create_user_ok(s, user_uuid, referral_code_used, ref_code) ==
    ~InsertUserFails(s, user_uuid, ref_code, ResolveReferrer(s, referral_code_used))

\* the store create_user commits, ref_code being the code _gen_referral_code
\* returned; unchanged when the INSERT raises
create_user(s, user_uuid, nickname, referral_code_used, ref_code, t) ==
    LET referred_by == ResolveReferrer(s, referral_code_used)
        s1 == InsertUser(s, user_uuid, nickname, ref_code, referred_by, t)
    IN  IF ~create_user_ok(s, user_uuid, referral_code_used, ref_code)
        THEN s
        ELSE IF referred_by # 0
        THEN ApplyReferralBonus(s1, referred_by, s1.user_seq, t)
        ELSE s1

\* (mutant) the period is added to the stored expiry even when it is past
NewExpiresNoClamp(base, days, t) ==
    LET base_dt == IF base # NULL THEN FromIsoFormat(base) ELSE t
    IN  IsoFormat(base_dt + Timedelta(days))

\* the expiry extend_subscription writes: max(now, stored expiry) + days
NewExpires(base, days, t) ==
    LET base_dt == IF base # NULL THEN FromIsoFormat(base) ELSE t
        clamped == IF base_dt < t THEN t ELSE base_dt
    IN  IsoFormat(clamped + Timedelta(days))

\* the UPDATE of extend_subscription (its commit is the caller's step)
extend_subscription(s, user_id, days, t) ==
    IF get_user(s, user_id) = NULL
    THEN s
    ELSE [s EXCEPT !.users[user_id].subscription_expires_at =
                       NewExpires(s.users[user_id].subscription_expires_at, days, t)]

\* the four DELETEs of delete_user on the tables that own rows of the user
DeleteOwnedRows(s, user_id) ==
    [s EXCEPT
        !.referrals = {r \in @ : r.referrer_id # user_id /\ r.referred_id # user_id},
        !.daily_traffic = Remove(@, {k \in DOMAIN @ : @[k].user_id = user_id}),
        !.traffic_logs = Remove(@, {k \in DOMAIN @ : @[k].user_id = user_id}),
        !.payments = Remove(@, {k \in DOMAIN @ : @[k].user_id = user_id})]

\* the rows whose REFERENCES users(id) column holds user_id
RowsReferencing(s, user_id) ==
    {<<"users", u>> : u \in {u \in DOMAIN s.users : s.users[u].referred_by = user_id}}
    \cup {<<"referrals", r>> : r \in {r \in s.referrals :
                r.referrer_id = user_id \/ r.referred_id = user_id}}
    \cup {<<"daily_traffic", k>> : k \in {k \in DOMAIN s.daily_traffic :
                s.daily_traffic[k].user_id = user_id}}
    \cup {<<"traffic_logs", k>> : k \in {k \in DOMAIN s.traffic_logs :
                s.traffic_logs[k].user_id = user_id}}
    \cup {<<"payments", k>> : k \in {k \in DOMAIN s.payments :
                s.payments[k].user_id = user_id}}

\* PRAGMA foreign_keys=ON: deleting a users row that is still referenced fails
ForeignKeyFailed(s, user_id) ==
    user_id \in DOMAIN s.users /\ RowsReferencing(s, user_id) # {}

\* delete_user: the store it commits, or the unchanged store when DELETE FROM
\* users raises and the connection is closed without a commit
delete_user_ok(s, user_id) == ~ForeignKeyFailed(DeleteOwnedRows(s, user_id), user_id)

delete_user(s, user_id) ==
    LET s4 == DeleteOwnedRows(s, user_id)
    IN  IF delete_user_ok(s, user_id)
        THEN [s4 EXCEPT !.users = Remove(@, {user_id})]
        ELSE s

-----------------------------------------------------------------------------
(* Requests served one at a time, each handler run to its response *)

\* a connection between requests: n counts the requests it has served
IdleConn(n) ==
    [pc |-> "idle", n |-> n, inv |-> "", pid |-> 0, uid |-> 0, days |-> 0,
     nickname |-> "", referral |-> NoCode, ref_code |-> NoCode, referred_by |-> 0,
     attempts |-> 0, node |-> "", batch |-> <<>>, idx |-> 0, today |-> 0,
     gateway |-> <<>>, base |-> <<>>]

ConnIdle == [c \in Conns |-> IdleConn(0)]

InitLedger ==
    /\ db = EmptyStore
    /\ now = 0
    /\ last = Req("none")
    /\ conn = ConnIdle
    /\ writer = NoConn
    /\ wtx = EmptyStore
    /\ answers = {}

Tick ==
    /\ now < MaxTime
    /\ now' = now + 1
    /\ last' = Req("tick")
    /\ UNCHANGED <<db, conc>>

\* POST /go/register: the user is created, or the exception of create_user
\* (no code found, or the INSERT refused) is answered with status 500
ClientRegister ==
    /\ db.user_seq < MaxUsers
    /\ \E nickname \in Nicknames, referral \in Codes \cup {NoCode} :
          \/ \E user_uuid \in uuid4(db), ref_code \in gen_referral_code(db) :
                LET ok == create_user_ok(db, user_uuid, referral, ref_code)
                IN  /\ db' = create_user(db, user_uuid, nickname, referral, ref_code, now)
                    /\ last' = [Req("create_user") EXCEPT
                                   !.uid = IF ok THEN db.user_seq + 1 ELSE 0,
                                   !.code = referral, !.nickname = nickname,
                                   !.ok = ok]
          \/ /\ gen_can_exhaust(db)
             /\ db' = db
             /\ last' = [Req("create_user") EXCEPT
                            !.code = referral, !.nickname = nickname, !.ok = FALSE]
    /\ UNCHANGED <<now, conc>>

\* DELETE /api/admin/users/<id>
AdminDeleteUser ==
    /\ \E user_id \in 1..MaxUsers :
          /\ db' = delete_user(db, user_id)
          /\ last' = [Req("delete_user") EXCEPT !.uid = user_id,
                                         !.ok = delete_user_ok(db, user_id)]
    /\ UNCHANGED <<now, conc>>

\* POST /api/admin/settings with the referral bonus
AdminSaveBonus ==
    /\ \E v \in BonusChoices :
          /\ v # get_setting(db, "referral_bonus_days")
          /\ db' = set_setting(db, "referral_bonus_days", v)
    /\ last' = Req("set_setting")
    /\ UNCHANGED <<now, conc>>

NextLedger ==
    \/ Tick
    \/ ClientRegister
    \/ AdminDeleteUser
    \/ AdminSaveBonus

SpecLedger == InitLedger /\ [][NextLedger]_vars

-----------------------------------------------------------------------------
(* Traffic accounting and the authorised-clients list *)

BytesPerMB == 1048576

\* the identifier a node reports for a user: first character, the part between
\* it and the "@" (a number or not), and whether an "@" occurs
Email(user_id) == [first |-> "u", numeric |-> TRUE, id |-> user_id, at |-> TRUE]

\* (mutant) the "@" is not looked for
ParseEmailNoAt(email) ==
    IF email.first # "u" THEN [skip |-> TRUE, user_id |-> 0]
    ELSE IF ~email.numeric THEN [skip |-> TRUE, user_id |-> 0]
    ELSE [skip |-> FALSE, user_id |-> email.id]

\* record_traffic's parse of an identifier: skipped, or the user id it names
ParseEmail(email) ==
    IF email.first # "u" \/ ~email.at THEN [skip |-> TRUE, user_id |-> 0]
    ELSE IF ~email.numeric THEN [skip |-> TRUE, user_id |-> 0]
    ELSE [skip |-> FALSE, user_id |-> email.id]

\* the daily_traffic rows of a user and a date
DailyRows(s, user_id, date) ==
    {k \in DOMAIN s.daily_traffic :
        s.daily_traffic[k].user_id = user_id /\ s.daily_traffic[k].date = date}

\* SELECT total_bytes FROM daily_traffic WHERE user_id = ? AND date = ?,
\* fetchone(): the first row found, 0 standing for no row
DailyTotal(s, user_id, date) ==
    IF DailyRows(s, user_id, date) = {}
    THEN 0
    ELSE s.daily_traffic[CHOOSE k \in DailyRows(s, user_id, date) :
                            \A j \in DailyRows(s, user_id, date) : k <= j].total_bytes

get_user_traffic_today(s, user_id, t) == DailyTotal(s, user_id, Today(t))

\* the rows the SELECT of get_active_clients returns
ActiveRows(s, t) ==
    {u \in DOMAIN s.users :
        /\ s.users[u].status = "active"
        /\ \/ s.users[u].subscription_expires_at = NULL
           \/ TextGreater(s.users[u].subscription_expires_at, SqlDatetimeNow(t))}

\* (mutant) the user is cut off only once the total exceeds the limit
OverLimitStrict(s, u, t) ==
    /\ s.users[u].tier = "free"
    /\ s.users[u].daily_traffic_limit_mb > 0
    /\ DailyRows(s, u, Today(t)) # {}
    /\ DailyTotal(s, u, Today(t)) > s.users[u].daily_traffic_limit_mb * BytesPerMB

OverLimit(s, u, t) ==
    /\ s.users[u].tier = "free"
    /\ s.users[u].daily_traffic_limit_mb > 0
    /\ DailyRows(s, u, Today(t)) # {}
    /\ DailyTotal(s, u, Today(t)) >= s.users[u].daily_traffic_limit_mb * BytesPerMB

get_active_clients(s, t) == {Email(u) : u \in {u \in ActiveRows(s, t) : ~OverLimit(s, u, t)}}

\* (mutant) a plain INSERT INTO daily_traffic on a table without the UNIQUE
\* constraint: every entry adds a row
InsertDaily(s, user_id, date, total) ==
    [s EXCEPT !.daily_seq = @ + 1,
              !.daily_traffic =
                  ((s.daily_seq + 1) :> [user_id |-> user_id, date |-> date,
                                         total_bytes |-> total]) @@ @]

\* INSERT INTO daily_traffic ... ON CONFLICT(user_id, date) DO UPDATE SET
\* total_bytes = total_bytes + ?
UpsertDaily(s, user_id, date, total) ==
    IF DailyRows(s, user_id, date) # {}
    THEN [s EXCEPT !.daily_traffic =
             [k \in DOMAIN @ |->
                 IF k \in DailyRows(s, user_id, date)
                 THEN [@[k] EXCEPT !.total_bytes = @ + total]
                 ELSE @[k]]]
    ELSE [s EXCEPT !.daily_seq = @ + 1,
                   !.daily_traffic =
                       ((s.daily_seq + 1) :> [user_id |-> user_id, date |-> date,
                                              total_bytes |-> total]) @@ @]

\* the two INSERTs record_traffic makes for one entry
InsertTraffic(s, user_id, node_id, up, down, today) ==
    LET id == s.log_seq + 1
        row == [user_id |-> user_id, node_id |-> node_id,
                uplink_bytes |-> up, downlink_bytes |-> down]
        s1 == [s EXCEPT !.log_seq = id, !.traffic_logs = (id :> row) @@ @]
    IN  UpsertDaily(s1, user_id, today, up + down)

\* PRAGMA foreign_keys=ON: traffic_logs.user_id and node_id must name rows
TrafficForeignKeyFailed(s, user_id, node_id) ==
    user_id \notin DOMAIN s.users \/ node_id \notin s.nodes

\* the loop of record_traffic over the batch, in the order of the batch:
\* [ok, s] with ok = FALSE when an INSERT raised
RECURSIVE RecordEntries(_, _, _, _)
RecordEntries(s, node_id, entries, t) ==
    IF entries = <<>> THEN [ok |-> TRUE, s |-> s]
    ELSE LET e == Head(entries)
             user_id == ParseEmail(e.email).user_id
             total == e.uplink + e.downlink
         IN  IF ParseEmail(e.email).skip
             THEN RecordEntries(s, node_id, Tail(entries), t)
             ELSE IF total <= 0
             THEN RecordEntries(s, node_id, Tail(entries), t)
             ELSE IF TrafficForeignKeyFailed(s, user_id, node_id)
             THEN [ok |-> FALSE, s |-> s]
             ELSE RecordEntries(InsertTraffic(s, user_id, node_id, e.uplink, e.downlink,
                                              Today(t)),
                                node_id, Tail(entries), t)

record_traffic_ok(s, node_id, traffic_data, t) ==
    RecordEntries(s, node_id, traffic_data, t).ok

\* the store record_traffic commits; unchanged when an INSERT raised and the
\* connection is closed without a commit
record_traffic(s, node_id, traffic_data, t) ==
    IF record_traffic_ok(s, node_id, traffic_data, t)
    THEN RecordEntries(s, node_id, traffic_data, t).s
    ELSE s

-----------------------------------------------------------------------------
(* update_user and the admin handlers built on it *)

AllowedFieldsAndCode ==
    {"nickname", "tier", "status", "device_limit", "daily_traffic_limit_mb",
     "subscription_expires_at", "telegram_id", "telegram_username",
     "referral_code"}

AllowedFields ==
    {"nickname", "tier", "status", "device_limit", "daily_traffic_limit_mb",
     "subscription_expires_at", "telegram_id", "telegram_username"}

\* fields: a function from column names to values
update_user(s, user_id, fields) ==
    LET updates == DOMAIN fields \cap AllowedFields
    IN  IF updates = {} \/ user_id \notin DOMAIN s.users
        THEN s
        ELSE [s EXCEPT !.users[user_id] =
                 [k \in DOMAIN @ |-> IF k \in updates THEN fields[k] ELSE @[k]]]

TierUpdatesTierOnly(s, tier) == [tier |-> tier]

\* the updates admin_set_tier passes to update_user
TierUpdates(s, tier) ==
    IF tier = "vip"
    THEN [tier |-> tier, daily_traffic_limit_mb |-> 0,
          device_limit |-> get_setting(s, "vip_device_limit")]
    ELSE [tier |-> tier,
          daily_traffic_limit_mb |-> get_setting(s, "free_daily_traffic_mb"),
          device_limit |-> get_setting(s, "free_device_limit")]

\* the tier values a request may carry: the two tiers and any other text
Tiers == {"free", "vip", "gold"}

\* POST /api/admin/users/<id>/tier
AdminSetTier ==
    /\ \E user_id \in 1..MaxUsers, tier \in Tiers :
          /\ db' = update_user(db, user_id, TierUpdates(db, tier))
          /\ last' = [Req("set_tier") EXCEPT !.uid = user_id, !.tier = tier]
    /\ UNCHANGED <<now, conc>>

-----------------------------------------------------------------------------
(* Traffic reports from the nodes *)

TrafficAmounts == {0, BytesPerMB \div 2}

\* a node reports the identifiers it was given: those of users created so far
Entries(s) ==
    [email : {Email(u) : u \in 1..s.user_seq}, uplink : TrafficAmounts,
     downlink : TrafficAmounts]

\* a JSON object has one entry per identifier
Batches(s) ==
    {<<e>> : e \in Entries(s)}
    \cup {p \in Entries(s) \X Entries(s) : p[1].email # p[2].email}

\* the ledger after one registration at time 0
OneUser == create_user(EmptyStore, 1, "bob", NoCode, "a", 0)

\* the ledger after two registrations at time 0, the second with the code of the first
TwoUsers ==
    create_user(create_user(EmptyStore, 1, "bob", NoCode, "a", 0), 2, "bob", "a", "b", 0)

\* the same ledger with a second node registered
TwoNodes ==
    [TwoUsers EXCEPT !.nodes = {"n1", "n2"},
                     !.node_rows = [n \in {"n1", "n2"} |-> InstalledNode]]

InitTraffic ==
    /\ db = TwoUsers
    /\ now = 0
    /\ last = Req("none")
    /\ conn = ConnIdle
    /\ writer = NoConn
    /\ wtx = EmptyStore
    /\ answers = {}

\* POST /api/nodes/<node_id>/traffic
ReportTraffic ==
    /\ \E node_id \in db.nodes, data \in Batches(db) :
          /\ db.log_seq + Len(data) <= MaxLogs
          /\ db' = record_traffic(db, node_id, data, now)
          /\ last' = [Req("record_traffic") EXCEPT
                         !.batch = data,
                         !.ok = record_traffic_ok(db, node_id, data, now)]
    /\ UNCHANGED <<now, conc>>

NextTraffic ==
    \/ Tick
    \/ ReportTraffic
    \/ AdminSetTier
    \/ AdminDeleteUser

SpecTraffic == InitTraffic /\ [][NextTraffic]_vars

-----------------------------------------------------------------------------
(* Payments: create_payment, confirm_payment and their handlers *)

PaymentsByInvoice(s, invoice_id) ==
    {k \in DOMAIN s.payments : s.payments[k].crypto_invoice_id = invoice_id}

\* crypto_invoice_id is UNIQUE, user_id REFERENCES users(id)
create_payment_ok_any_invoice(s, user_id, invoice_id) == user_id \in DOMAIN s.users

create_payment_ok(s, user_id, invoice_id) ==
    PaymentsByInvoice(s, invoice_id) = {} /\ user_id \in DOMAIN s.users

create_payment(s, user_id, days, invoice_id) ==
    LET id == s.payment_seq + 1
        row == [user_id |-> user_id, crypto_invoice_id |-> invoice_id,
                status |-> "pending", days_added |-> days, paid_at |-> NULL]
    IN  IF create_payment_ok(s, user_id, invoice_id)
        THEN [s EXCEPT !.payment_seq = id, !.payments = (id :> row) @@ @]
        ELSE s

\* (mutant) the lookup forgets the status: any payment of the invoice matches
AnyPayment(s, invoice_id) == PaymentsByInvoice(s, invoice_id)

\* the SELECT of confirm_payment: the payments of the invoice that are pending
PendingPayment(s, invoice_id) ==
    {k \in PaymentsByInvoice(s, invoice_id) : s.payments[k].status = "pending"}

\* UPDATE payments SET status = 'paid', paid_at = datetime('now') WHERE id = ?
MarkPaid(s, payment_id, t) ==
    [s EXCEPT !.payments[payment_id].status = "paid",
              !.payments[payment_id].paid_at = SqlDatetimeNow(t)]

\* (mutant) the upgrade also sets the status active
UpgradeVipAndActivate(s, user_id) ==
    IF user_id \notin DOMAIN s.users THEN s
    ELSE [s EXCEPT !.users[user_id].tier = "vip",
                   !.users[user_id].daily_traffic_limit_mb = 0,
                   !.users[user_id].device_limit = get_setting(s, "vip_device_limit"),
                   !.users[user_id].status = "active"]

\* UPDATE users SET tier = 'vip', daily_traffic_limit_mb = 0, device_limit = ?
UpgradeVip(s, user_id) ==
    IF user_id \notin DOMAIN s.users THEN s
    ELSE [s EXCEPT !.users[user_id].tier = "vip",
                   !.users[user_id].daily_traffic_limit_mb = 0,
                   !.users[user_id].device_limit = get_setting(s, "vip_device_limit")]

confirm_payment_found(s, invoice_id) == PendingPayment(s, invoice_id) # {}

\* the store after confirm_payment has run to its return, alone on the store
confirm_payment(s, invoice_id, t) ==
    IF ~confirm_payment_found(s, invoice_id) THEN s
    ELSE LET id == CHOOSE k \in PendingPayment(s, invoice_id) : TRUE
             payment == s.payments[id]
             s1 == MarkPaid(s, id, t)
             s2 == extend_subscription(s1, payment.user_id, payment.days_added, t)
         IN  UpgradeVip(s2, payment.user_id)

InitPay ==
    /\ db = TwoUsers
    /\ now = 0
    /\ last = Req("none")
    /\ conn = ConnIdle
    /\ writer = NoConn
    /\ wtx = EmptyStore
    /\ answers = {}

\* POST /api/payment/create, the gateway having returned invoice_id
PaymentCreate ==
    /\ db.payment_seq < MaxPayments
    /\ \E code \in Codes, invoice_id \in Invoices :
          LET user_id == get_user_by_code(db, code)
              days == get_setting(db, "vip_duration_days")
          IN  IF user_id = 0
              THEN /\ db' = db
                   /\ last' = [Req("create_payment") EXCEPT !.code = code, !.ok = FALSE]
              ELSE /\ db' = create_payment(db, user_id, days, invoice_id)
                   /\ last' = [Req("create_payment") EXCEPT
                                  !.code = code, !.uid = user_id, !.inv = invoice_id,
                                  !.ok = create_payment_ok(db, user_id, invoice_id)]
    /\ UNCHANGED <<now, conc>>

\* POST /api/payment/webhook with a verified invoice_paid notification
PaymentWebhook ==
    /\ \E invoice_id \in Invoices :
          /\ db' = confirm_payment(db, invoice_id, now)
          /\ last' = [Req("confirm_payment") EXCEPT
                         !.inv = invoice_id,
                         !.ok = confirm_payment_found(db, invoice_id)]
    /\ UNCHANGED <<now, conc>>

ExtendDays == {1, 2}

\* POST /api/admin/users/<id>/extend; the model stops extending a subscription
\* that would run past MaxExpires
AdminExtend ==
    /\ \E user_id \in 1..MaxUsers, days \in ExtendDays :
          /\ user_id \in DOMAIN db.users =>
                FromIsoFormat(NewExpires(db.users[user_id].subscription_expires_at,
                                         days, now)) <= MaxExpires
          /\ db' = extend_subscription(db, user_id, days, now)
          /\ last' = [Req("extend_subscription") EXCEPT !.uid = user_id, !.days = days]
    /\ UNCHANGED <<now, conc>>

NextPay ==
    \/ Tick
    \/ PaymentCreate
    \/ PaymentWebhook
    \/ AdminExtend

SpecPay == InitPay /\ [][NextPay]_vars

-----------------------------------------------------------------------------
(* The administration of users: update_user called with any fields, tiers, *)
(* limits, settings, next to registrations, extensions and payments        *)

\* keyword arguments of update_user: those of admin_block_user and of
\* admin_device_limit, a tier or a daily limit alone, and columns that are not
\* on the allow-list, alone or next to one that is
FieldChoices ==
    {[tier |-> "vip"],
     [daily_traffic_limit_mb |-> 2],
     [device_limit |-> 1],
     [status |-> "blocked", uuid |-> 0, referral_code |-> NoCode, referred_by |-> 0],
     [uuid |-> 0, referral_code |-> NoCode, referred_by |-> 0]}

\* update_user(db, user_id, **fields)
UpdateUser ==
    /\ \E user_id \in 1..MaxUsers, fields \in FieldChoices :
          /\ db' = update_user(db, user_id, fields)
          /\ last' = [Req("update_user") EXCEPT !.uid = user_id, !.fields = fields]
    /\ UNCHANGED <<now, conc>>

\* POST /api/admin/users/<id>/block: always answered {"status": "ok"}
AdminBlockUser ==
    /\ \E user_id \in 1..MaxUsers, new_status \in {"blocked", "active"} :
          /\ db' = update_user(db, user_id, [status |-> new_status])
          /\ last' = [Req("block_user") EXCEPT !.uid = user_id]
    /\ UNCHANGED <<now, conc>>

\* POST /api/admin/users/<id>/device-limit: always answered {"status": "ok"}
AdminDeviceLimit ==
    /\ \E user_id \in 1..MaxUsers, limit \in {1, 2} :
          /\ db' = update_user(db, user_id, [device_limit |-> limit])
          /\ last' = [Req("device_limit") EXCEPT !.uid = user_id]
    /\ UNCHANGED <<now, conc>>

\* POST /go/status: 404 when no user has the code; nothing is written
ClientStatus ==
    /\ \E code \in Codes :
          last' = [Req("client_status") EXCEPT
                      !.code = code, !.uid = get_user_by_code(db, code),
                      !.ok = (get_user_by_code(db, code) # 0)]
    /\ UNCHANGED <<db, now, conc>>

LimitChoices ==
    {<<"vip_device_limit", 4>>, <<"free_daily_traffic_mb", 2>>, <<"free_device_limit", 3>>}

\* POST /api/admin/settings with one of the limits
AdminSaveLimits ==
    /\ \E kv \in LimitChoices :
          /\ kv[2] # get_setting(db, kv[1])
          /\ db' = set_setting(db, kv[1], kv[2])
    /\ last' = Req("set_setting")
    /\ UNCHANGED <<now, conc>>

\* the ledger with two users and a pending payment of each
TwoPendingPayments ==
    create_payment(create_payment(TwoUsers, 2, 1, "i1"), 1, 1, "i2")

\* the ledger with one user and a pending payment of theirs
OnePendingPayment == create_payment(OneUser, 1, 1, "i1")

InitAdmin ==
    /\ db = OnePendingPayment
    /\ now = 0
    /\ last = Req("none")
    /\ conn = ConnIdle
    /\ writer = NoConn
    /\ wtx = EmptyStore
    /\ answers = {}

NextAdmin ==
    \/ UpdateUser
    \/ AdminSetTier
    \/ AdminSaveLimits
    \/ PaymentWebhook

SpecAdmin == InitAdmin /\ [][NextAdmin]_vars

\* payments of users an administrator blocks and unblocks
NextBlocked ==
    \/ Tick
    \/ AdminBlockUser
    \/ AdminSetTier
    \/ PaymentCreate
    \/ PaymentWebhook

SpecBlocked == InitAdmin /\ [][NextBlocked]_vars

-----------------------------------------------------------------------------
(* One operation on each of a set of ledgers: what a single registration,  *)
(* update, tier change, extension, payment or deletion writes              *)

\* the settings after an administrator has saved other trial days and limits
OtherSettings(s) ==
    set_setting(set_setting(set_setting(s, "trial_days", 2),
                            "free_device_limit", 3),
                "free_daily_traffic_mb", 2)

\* ledgers after registrations, invoices, a confirmed payment, a block, an
\* extension and saved settings
Ledgers ==
    LET paid == confirm_payment(TwoPendingPayments, "i1", 0)
    IN  {OneUser, OnePendingPayment, TwoUsers, TwoPendingPayments, paid,
         update_user(paid, 1, [status |-> "blocked"]),
         extend_subscription(TwoPendingPayments, 2, 2, 0),
         OtherSettings(EmptyStore), OtherSettings(TwoUsers),
         set_setting(OneUser, "trial_days", 2)}

InitOne ==
    /\ db \in Ledgers
    /\ now \in 0..MaxTime
    /\ last = Req("none")
    /\ conn = ConnIdle
    /\ writer = NoConn
    /\ wtx = EmptyStore
    /\ answers = {}

\* one operation on the ledger as it was drawn
NextOne ==
    \/ last.op = "none" /\ ClientRegister
    \/ last.op = "none" /\ UpdateUser
    \/ last.op = "none" /\ AdminSetTier
    \/ last.op = "none" /\ AdminExtend
    \/ last.op = "none" /\ PaymentWebhook
    \/ last.op = "none" /\ AdminDeleteUser
    \/ last.op = "none" /\ AdminBlockUser
    \/ last.op = "none" /\ AdminDeviceLimit
    \/ last.op = "none" /\ ClientStatus
    \/ last.op = "none" /\ PaymentCreate

SpecOne == InitOne /\ [][NextOne]_vars

-----------------------------------------------------------------------------
(* The nickname of a create-account request (client_register): text is a   *)
(* sequence of characters                                                  *)

MinNickname == 2
MaxNickname == 30

Whitespace == {" "}

\* the characters re.sub(r"[<>&\"']", "", nickname) removes
Stripped == {"<", ">", "&", "\"", "'"}

RECURSIVE Repeat(_, _)
Repeat(ch, n) == IF n = 0 THEN <<>> ELSE <<ch>> \o Repeat(ch, n - 1)

RECURSIVE LStrip(_)
LStrip(text) ==
    IF text # <<>> /\ Head(text) \in Whitespace THEN LStrip(Tail(text)) ELSE text

RECURSIVE RStrip(_)
RStrip(text) ==
    IF text # <<>> /\ text[Len(text)] \in Whitespace
    THEN RStrip(SubSeq(text, 1, Len(text) - 1)) ELSE text

\* str.strip()
Strip(text) == RStrip(LStrip(text))

\* re.sub(r"[<>&\"']", "", nickname)
Sanitize(text) == SelectSeq(text, LAMBDA ch : ch \notin Stripped)

\* the nickname of the request body; none is read as the empty text
RawNicknames ==
    {<<>>, <<" ">>, <<"a">>, <<"a", "b">>, <<" ", "a", "b", " ">>,
     <<"<", ">">>, <<"a", "&">>, <<"a", "'", "b">>,
     Repeat("a", MaxNickname), Repeat("a", MaxNickname + 1)}

\* the length check of client_register on the stripped nickname
NicknameAccepted(nickname) ==
    ~(Len(nickname) = 0 \/ Len(nickname) < MinNickname \/ Len(nickname) > MaxNickname)

\* POST /go/register from the nickname of the body on, without referral code
ClientRegisterNickname ==
    /\ db.user_seq < MaxUsers
    /\ \E raw \in RawNicknames :
          LET nickname == Strip(raw)
          IN  IF ~NicknameAccepted(nickname)
              THEN /\ db' = db
                   /\ last' = [Req("create_user") EXCEPT
                                  !.http = [nickname |-> raw, status |-> 400],
                                  !.ok = FALSE]
              ELSE \/ \E user_uuid \in uuid4(db), ref_code \in gen_referral_code(db) :
                        LET ok == create_user_ok(db, user_uuid, NoCode, ref_code)
                        IN  /\ db' = create_user(db, user_uuid, Sanitize(nickname),
                                                 NoCode, ref_code, now)
                            /\ last' = [Req("create_user") EXCEPT
                                           !.uid = IF ok THEN db.user_seq + 1 ELSE 0,
                                           !.http = [nickname |-> raw,
                                                     status |-> IF ok THEN 200 ELSE 500],
                                           !.ok = ok]
                   \/ /\ gen_can_exhaust(db)
                      /\ db' = db
                      /\ last' = [Req("create_user") EXCEPT
                                     !.http = [nickname |-> raw, status |-> 500],
                                     !.ok = FALSE]
    /\ UNCHANGED <<now, conc>>

NextNickname ==
    \/ ClientRegisterNickname
    \/ AdminDeleteUser

SpecNickname == InitLedger /\ [][NextNickname]_vars

-----------------------------------------------------------------------------
(* Nodes and the links generated for a user (upsert_node,                  *)
(* update_node_heartbeat, generate_vless_links).  The ledger of this part  *)
(* is the pair of the users and the rows of the nodes table; text is a     *)
(* sequence of characters.                                                 *)

UuidPlaceholder == <<"{", "u", "u", "i", "d", "}">>
NamePlaceholder == <<"{", "n", "o", "d", "e", "_", "n", "a", "m", "e", "}">>

\* str.replace(old, new) for a non-empty old: the occurrences are taken from
\* the left and do not overlap
RECURSIVE Replace(_, _, _)
Replace(text, old, new) ==
    IF Len(text) < Len(old) THEN text
    ELSE IF SubSeq(text, 1, Len(old)) = old
         THEN new \o Replace(SubSeq(text, Len(old) + 1, Len(text)), old, new)
         ELSE <<Head(text)>> \o Replace(Tail(text), old, new)

HexDigits == <<"a", "b", "c", "d">>

\* str(uuid): hexadecimal groups joined by "-", the digit 4 leading the
\* version group; one text per uuid
UuidText(u) ==
    <<HexDigits[((u \div 4) % 4) + 1], "-", "4", HexDigits[(u % 4) + 1]>>

NodeIds == {"n1", "n2"}

\* the uuid a node reports: none or empty, the text of a uuid, other text
NodeUuids == {<<>>, UuidText(2), UuidText(5), <<"-">>, <<"z">>}

\* the vless_link a node reports
VlessLinks ==
    {<<>>,
     <<"/">> \o UuidText(2) \o <<"@">>,
     <<"/">> \o UuidText(5) \o <<"@">> \o UuidText(5),
     <<"/", "x", "@", "h">>}

\* the vless_link_template a node reports: none, or one with both placeholders
VlessTemplates ==
    {<<>>, <<"/">> \o UuidPlaceholder \o <<"#">> \o NamePlaceholder}

NodeNames == {<<"N">>}

\* the addresses nodes register from
ServerIps == {"ip1", "ip2"}

\* the id a registration may leave out
NoId == ""

\* hashlib.sha256(server_ip).hexdigest()[:12]: one id per address
Sha256Hex12(server_ip) == IF server_ip = "ip1" THEN "h1" ELSE "h2"

\* the bodies of POST /api/nodes/register that differ in the link: the id
\* given, one address
NodeData ==
    [id : NodeIds, server_ip : {"ip1"}, node_name : NodeNames,
     vless_link : VlessLinks, uuid : NodeUuids,
     vless_link_template : VlessTemplates]

\* the bodies that differ in the address, the id and the name: one link
AddressData ==
    [id : {NoId, "n1"}, server_ip : ServerIps, node_name : {<<"N">>, <<"P">>},
     vless_link : {<<"/">> \o UuidText(5)}, uuid : {UuidText(5)},
     vless_link_template : {<<>>}]

\* (mutant) the id is always the one derived from the address
NodeIdFromAddress(data) == Sha256Hex12(data.server_ip)

\* upsert_node: data.get("id") or the hash of the address
NodeId(data) ==
    IF data.id # NoId THEN data.id ELSE Sha256Hex12(data.server_ip)

\* upsert_node: the template stored for the registration
BuildTemplate(data) ==
    IF data.vless_link_template = <<>> /\ data.vless_link # <<>>
    THEN IF data.uuid # <<>>
         THEN Replace(data.vless_link, data.uuid, UuidPlaceholder)
         ELSE <<>>
    ELSE data.vless_link_template

\* upsert_node: INSERT ... ON CONFLICT(id) DO UPDATE.  The update sets every
\* column of the registration but server_ip and installed_at, the status
\* online and last_seen now.
upsert_node(s, data, t) ==
    LET node_id == NodeId(data)
        row == [node_name |-> data.node_name,
                server_ip |-> IF node_id \in DOMAIN s.node_rows
                              THEN s.node_rows[node_id].server_ip
                              ELSE data.server_ip,
                status |-> "online",
                vless_link |-> data.vless_link,
                vless_link_template |-> BuildTemplate(data),
                last_seen |-> t]
    IN  [s EXCEPT !.nodes = @ \cup {node_id},
                  !.node_rows = (node_id :> row) @@ @]

\* update_node_heartbeat: UPDATE nodes SET last_seen, status WHERE id
update_node_heartbeat(s, node_id, t) ==
    IF node_id \notin DOMAIN s.node_rows THEN s
    ELSE [s EXCEPT !.node_rows[node_id].status = "online",
                   !.node_rows[node_id].last_seen = t]

\* (mutant) the SELECT of generate_vless_links without the status
NodesWithTemplate(s) ==
    {n \in DOMAIN s.node_rows : s.node_rows[n].vless_link_template # <<>>}

\* the SELECT of generate_vless_links: online, template neither NULL nor ''
OnlineNodesWithTemplate(s) ==
    {n \in DOMAIN s.node_rows :
        /\ s.node_rows[n].status = "online"
        /\ s.node_rows[n].vless_link_template # <<>>}

\* generate_vless_links: per selected node, the link
generate_vless_links(s, user_uuid) ==
    [n \in OnlineNodesWithTemplate(s) |->
        Replace(Replace(s.node_rows[n].vless_link_template, UuidPlaceholder, user_uuid),
                NamePlaceholder, s.node_rows[n].node_name)]

\* the nodes table after the migration of a nodes.json that lists one node,
\* offline, with a link and its uuid
MigratedNodes ==
    ("n3" :> [node_name |-> <<"M">>, server_ip |-> "ip3", status |-> "offline",
              vless_link |-> <<"/">> \o UuidText(7),
              vless_link_template |-> <<"/">> \o UuidPlaceholder,
              last_seen |-> 0])

InitLinks ==
    /\ db = [TwoUsers EXCEPT !.nodes = {"n3"}, !.node_rows = MigratedNodes]
    /\ now = 0
    /\ last = Req("none")
    /\ conn = ConnIdle
    /\ writer = NoConn
    /\ wtx = EmptyStore
    /\ answers = {}

\* register_node with the body data: the answer carries the node id
Registered(data) ==
    /\ db' = upsert_node(db, data, now)
    /\ last' = [Req("register_node") EXCEPT
                   !.http = [node_id |-> NodeId(data)] @@ data]

\* POST /api/nodes/register
RegisterNode ==
    /\ \E data \in NodeData : Registered(data)
    /\ UNCHANGED <<now, conc>>

\* POST /api/nodes/<node_id>/heartbeat
NodeHeartbeat ==
    /\ \E node_id \in NodeIds \cup {"n3", "h1"} :
          /\ db' = update_node_heartbeat(db, node_id, now)
          /\ last' = [Req("heartbeat") EXCEPT !.http = [id |-> node_id]]
    /\ UNCHANGED <<now, conc>>

\* POST /go/status: the links of the user who has the code
ClientLinks ==
    /\ \E code \in Codes :
          LET user_id == get_user_by_code(db, code)
          IN  /\ user_id # 0
              /\ last' = [Req("generate_links") EXCEPT
                             !.uid = user_id, !.code = code,
                             !.http = [links |-> generate_vless_links(
                                           db, UuidText(db.users[user_id].uuid))]]
    /\ UNCHANGED <<db, now, conc>>

\* (mutant) only the row of the node is deleted
delete_node_row(s, node_id) ==
    [s EXCEPT !.nodes = @ \ {node_id},
              !.node_rows = Remove(@, {node_id})]

\* delete_node: the traffic_logs rows of the node, then its row
delete_node(s, node_id) ==
    [s EXCEPT !.traffic_logs =
                  Remove(@, {l \in DOMAIN @ : @[l].node_id = node_id}),
              !.nodes = @ \ {node_id},
              !.node_rows = Remove(@, {node_id})]

\* DELETE /api/nodes/<node_id>
DeleteNode ==
    /\ \E node_id \in NodeIds \cup {"n3", "h1"} :
          /\ db' = delete_node(db, node_id)
          /\ last' = [Req("delete_node") EXCEPT !.http = [id |-> node_id]]
    /\ UNCHANGED <<now, conc>>

\* POST /api/nodes/register, the bodies that differ in the address
RegisterAddress ==
    /\ \E data \in AddressData : Registered(data)
    /\ UNCHANGED <<now, conc>>

\* the nodes table with the node n1 and the migrated offline node
InitNodes ==
    /\ db = [TwoUsers EXCEPT !.nodes = {"n1", "n3"},
                             !.node_rows = @ @@ MigratedNodes]
    /\ now = 0
    /\ last = Req("none")
    /\ conn = ConnIdle
    /\ writer = NoConn
    /\ wtx = EmptyStore
    /\ answers = {}

NextNodes ==
    \/ Tick
    \/ RegisterAddress
    \/ NodeHeartbeat
    \/ DeleteNode

SpecNodes == InitNodes /\ [][NextNodes]_vars

InitNodeTraffic ==
    /\ db = TwoNodes
    /\ now = 0
    /\ last = Req("none")
    /\ conn = ConnIdle
    /\ writer = NoConn
    /\ wtx = EmptyStore
    /\ answers = {}

NextNodeTraffic ==
    \/ Tick
    \/ ReportTraffic
    \/ DeleteNode

SpecNodeTraffic == InitNodeTraffic /\ [][NextNodeTraffic]_vars

NextLinks ==
    \/ RegisterNode
    \/ NodeHeartbeat
    \/ ClientLinks

SpecLinks == InitLinks /\ [][NextLinks]_vars

-----------------------------------------------------------------------------
(* Requests served concurrently, each on its own connection (get_db), one  *)
(* statement at a time.  INSERT, UPDATE and DELETE open a transaction when *)
(* none is open and need SQLite's write lock, which one connection holds   *)
(* until it commits or is closed; a statement that finds the lock taken    *)
(* waits (busy_timeout).  A SELECT outside a transaction reads the         *)
(* committed store.                                                        *)

View(c) == IF writer = c THEN wtx ELSE db

CanWrite(c) == writer \in {NoConn, c}

Answer(c, op, inv, status) ==
    [c |-> c, n |-> conn[c].n, op |-> op, inv |-> inv, status |-> status]

\* the response is sent and the connection closed: an open transaction is lost
Respond(c, op, inv, status) ==
    /\ conn' = [conn EXCEPT ![c] = IdleConn(conn[c].n + 1)]
    /\ answers' = answers \cup {Answer(c, op, inv, status)}

\* the requests received so far: those answered and those being served
RequestsStarted == Cardinality(answers) + Cardinality({c \in Conns : conn[c].pc # "idle"})

\* db.commit()
Commit(c) ==
    /\ writer = c
    /\ db' = wtx
    /\ writer' = NoConn
    /\ wtx' = EmptyStore

InitWebhook ==
    /\ db = TwoPendingPayments
    /\ now = 0
    /\ last = Req("none")
    /\ conn = ConnIdle
    /\ writer = NoConn
    /\ wtx = EmptyStore
    /\ answers = {}

\* payment_webhook: a verified invoice_paid notification arrives
WebhookStart(c) ==
    /\ conn[c].pc = "idle"
    /\ RequestsStarted < MaxRequests
    /\ \E invoice_id \in Invoices :
          conn' = [conn EXCEPT ![c].pc = "cp_select", ![c].inv = invoice_id]
    /\ UNCHANGED <<db, now, last, writer, wtx, answers>>

\* confirm_payment: SELECT * FROM payments WHERE ... AND status = 'pending'
CpSelect(c) ==
    /\ conn[c].pc = "cp_select"
    /\ LET found == PendingPayment(View(c), conn[c].inv)
       IN  IF found = {}
           THEN Respond(c, "confirm_payment", conn[c].inv, "not_found")
           ELSE /\ \E id \in found :
                      conn' = [conn EXCEPT
                                  ![c].pc = "cp_mark",
                                  ![c].pid = id,
                                  ![c].uid = View(c).payments[id].user_id,
                                  ![c].days = View(c).payments[id].days_added]
                /\ UNCHANGED answers
    /\ UNCHANGED <<db, now, last, writer, wtx>>

\* confirm_payment: UPDATE payments SET status = 'paid' ... WHERE id = ?
CpMark(c) ==
    /\ conn[c].pc = "cp_mark"
    /\ CanWrite(c)
    /\ wtx' = MarkPaid(View(c), conn[c].pid, now)
    /\ writer' = c
    /\ conn' = [conn EXCEPT ![c].pc = "ext_update"]
    /\ UNCHANGED <<db, now, last, answers>>

\* extend_subscription: get_user, then the UPDATE of the expiry; it returns
\* before its commit when the user is gone
ExtUpdate(c) ==
    /\ conn[c].pc = "ext_update"
    /\ CanWrite(c)
    /\ wtx' = extend_subscription(View(c), conn[c].uid, conn[c].days, now)
    /\ writer' = c
    /\ conn' = [conn EXCEPT ![c].pc =
                   IF get_user(View(c), conn[c].uid) = NULL
                   THEN "cp_upgrade" ELSE "ext_commit"]
    /\ UNCHANGED <<db, now, last, answers>>

\* extend_subscription: db.commit()
ExtCommit(c) ==
    /\ conn[c].pc = "ext_commit"
    /\ Commit(c)
    /\ conn' = [conn EXCEPT ![c].pc = "cp_upgrade"]
    /\ UNCHANGED <<now, last, answers>>

\* confirm_payment: get_setting, then UPDATE users SET tier = 'vip', ...
CpUpgrade(c) ==
    /\ conn[c].pc = "cp_upgrade"
    /\ CanWrite(c)
    /\ wtx' = UpgradeVip(View(c), conn[c].uid)
    /\ writer' = c
    /\ conn' = [conn EXCEPT ![c].pc = "cp_commit"]
    /\ UNCHANGED <<db, now, last, answers>>

\* confirm_payment: db.commit() and return True
CpCommit(c) ==
    /\ conn[c].pc = "cp_commit"
    /\ Commit(c)
    /\ Respond(c, "confirm_payment", conn[c].inv, "confirmed")
    /\ UNCHANGED <<now, last>>

NextWebhook ==
    \E c \in Conns :
        \/ WebhookStart(c)
        \/ CpSelect(c)
        \/ CpMark(c)
        \/ ExtUpdate(c)
        \/ ExtCommit(c)
        \/ CpUpgrade(c)
        \/ CpCommit(c)

SpecWebhook == InitWebhook /\ [][NextWebhook]_vars

-----------------------------------------------------------------------------
(* Concurrent registrations and deletions *)


InitRegister ==
    /\ db = OneUser
    /\ now = 0
    /\ last = Req("none")
    /\ conn = ConnIdle
    /\ writer = NoConn
    /\ wtx = EmptyStore
    /\ answers = {}

Registering == {c \in Conns : conn[c].pc \in {"cu_gen", "cu_lookup", "cu_insert",
                                              "cu_bonus", "cu_commit"}}

\* client_register: a valid request arrives
RegisterStart(c) ==
    /\ conn[c].pc = "idle"
    /\ RequestsStarted < MaxRequests
    /\ db.user_seq + Cardinality(Registering) < MaxUsers
    /\ \E nickname \in Nicknames, referral \in Codes \cup {NoCode} :
          conn' = [conn EXCEPT ![c].pc = "cu_gen", ![c].nickname = nickname,
                               ![c].referral = referral]
    /\ UNCHANGED <<db, now, last, writer, wtx, answers>>

\* create_user: _gen_referral_code returns a code no row it reads carries, or
\* raises, which ends the request
CuGen(c) ==
    /\ conn[c].pc = "cu_gen"
    /\ \/ /\ \E code \in gen_referral_code(View(c)) :
                conn' = [conn EXCEPT ![c].pc = "cu_lookup", ![c].ref_code = code]
          /\ UNCHANGED answers
       \/ /\ gen_can_exhaust(View(c))
          /\ Respond(c, "create_user", "", "Could not generate unique referral code")
    /\ UNCHANGED <<db, now, last, writer, wtx>>

\* create_user: the settings are read and the referral code is resolved
CuLookup(c) ==
    /\ conn[c].pc = "cu_lookup"
    /\ conn' = [conn EXCEPT ![c].pc = "cu_insert",
                            ![c].referred_by = ResolveReferrer(View(c), conn[c].referral)]
    /\ UNCHANGED <<db, now, last, writer, wtx, answers>>

\* create_user: INSERT INTO users; the exception it may raise ends the request.
\* The uuid drawn when create_user was entered is first used here and does not
\* depend on the store: the draw is made where it is used.
CuInsert(c) ==
    /\ conn[c].pc = "cu_insert"
    /\ CanWrite(c)
    /\ \E user_uuid \in uuid4(View(c)) :
          IF InsertUserFails(View(c), user_uuid, conn[c].ref_code, conn[c].referred_by)
          THEN /\ Respond(c, "create_user", "",
                          InsertUserError(View(c), user_uuid, conn[c].ref_code,
                                          conn[c].referred_by))
               /\ UNCHANGED <<writer, wtx>>
          ELSE /\ wtx' = InsertUser(View(c), user_uuid, conn[c].nickname,
                                    conn[c].ref_code, conn[c].referred_by, now)
               /\ writer' = c
               /\ conn' = [conn EXCEPT
                              ![c].pc = IF conn[c].referred_by # 0
                                        THEN "cu_bonus" ELSE "cu_commit",
                              ![c].uid = View(c).user_seq + 1]
               /\ UNCHANGED answers
    /\ UNCHANGED <<db, now, last>>

\* create_user: the Referral row and the referrer's new expiry
CuBonus(c) ==
    /\ conn[c].pc = "cu_bonus"
    /\ CanWrite(c)
    /\ wtx' = ApplyReferralBonus(View(c), conn[c].referred_by, conn[c].uid, now)
    /\ writer' = c
    /\ conn' = [conn EXCEPT ![c].pc = "cu_commit"]
    /\ UNCHANGED <<db, now, last, answers>>

\* create_user: db.commit()
CuCommit(c) ==
    /\ conn[c].pc = "cu_commit"
    /\ Commit(c)
    /\ Respond(c, "create_user", "", "ok")
    /\ UNCHANGED <<now, last>>

\* admin_delete_user
DeleteStart(c) ==
    /\ conn[c].pc = "idle"
    /\ RequestsStarted < MaxRequests
    /\ \E user_id \in 1..MaxUsers :
          conn' = [conn EXCEPT ![c].pc = "du_owned", ![c].uid = user_id]
    /\ UNCHANGED <<db, now, last, writer, wtx, answers>>

\* delete_user: the DELETEs on referrals, daily_traffic, traffic_logs, payments
DuOwned(c) ==
    /\ conn[c].pc = "du_owned"
    /\ CanWrite(c)
    /\ wtx' = DeleteOwnedRows(View(c), conn[c].uid)
    /\ writer' = c
    /\ conn' = [conn EXCEPT ![c].pc = "du_user"]
    /\ UNCHANGED <<db, now, last, answers>>

\* delete_user: DELETE FROM users; when it raises, the connection is closed
\* with the transaction open
DuUser(c) ==
    /\ conn[c].pc = "du_user"
    /\ writer = c
    /\ IF ForeignKeyFailed(wtx, conn[c].uid)
       THEN /\ writer' = NoConn
            /\ wtx' = EmptyStore
            /\ Respond(c, "delete_user", "", "error")
       ELSE /\ wtx' = [wtx EXCEPT !.users = Remove(@, {conn[c].uid})]
            /\ conn' = [conn EXCEPT ![c].pc = "du_commit"]
            /\ UNCHANGED <<writer, answers>>
    /\ UNCHANGED <<db, now, last>>

\* delete_user: db.commit()
DuCommit(c) ==
    /\ conn[c].pc = "du_commit"
    /\ Commit(c)
    /\ Respond(c, "delete_user", "", "ok")
    /\ UNCHANGED <<now, last>>

NextRegister ==
    \E c \in Conns :
        \/ RegisterStart(c)
        \/ CuGen(c)
        \/ CuLookup(c)
        \/ CuInsert(c)
        \/ CuBonus(c)
        \/ CuCommit(c)
        \/ DeleteStart(c)
        \/ DuOwned(c)
        \/ DuUser(c)
        \/ DuCommit(c)

SpecRegister == InitRegister /\ [][NextRegister]_vars

-----------------------------------------------------------------------------
(* Traffic reports served concurrently *)

\* identifiers record_traffic does not accept: "x1@panel", "u1", "uabc@panel"
MalformedEmails ==
    {[first |-> "x", numeric |-> TRUE, id |-> 1, at |-> TRUE],
     [first |-> "u", numeric |-> TRUE, id |-> 1, at |-> FALSE],
     [first |-> "u", numeric |-> FALSE, id |-> 0, at |-> TRUE]}

\* what the nodes report: entries of the users created so far, with or
\* without traffic, and entries with traffic under a malformed identifier
ReportEntries(s) ==
    [email : {Email(u) : u \in 1..s.user_seq}, uplink : TrafficAmounts, downlink : {0}]
    \cup [email : MalformedEmails, uplink : {BytesPerMB \div 2}, downlink : {0}]

ReportBatches(s) ==
    {<<e>> : e \in ReportEntries(s)}
    \cup {p \in ReportEntries(s) \X ReportEntries(s) : p[1].email # p[2].email}

\* each node reports over a connection of its own
NodeOf == [c \in Conns |-> IF c = "c1" THEN "n1" ELSE "n2"]

InitReport ==
    /\ db = TwoNodes
    /\ now = 0
    /\ last = Req("none")
    /\ conn = ConnIdle
    /\ writer = NoConn
    /\ wtx = EmptyStore
    /\ answers = {}

\* the entries of the reports being served
RECURSIVE EntriesInFlight(_)
EntriesInFlight(C) ==
    IF C = {} THEN 0
    ELSE LET c == CHOOSE x \in C : TRUE
         IN  Len(conn[c].batch) + EntriesInFlight(C \ {c})

\* the entries of the reports answered
RECURSIVE EntriesAnswered(_)
EntriesAnswered(A) ==
    IF A = {} THEN 0
    ELSE LET a == CHOOSE x \in A : TRUE
         IN  Len(a.inv.batch) + EntriesAnswered(A \ {a})

\* the clock moves while reports are served
ReportTick ==
    /\ now < MaxTime
    /\ now' = now + 1
    /\ UNCHANGED <<db, last, conc>>

\* report_traffic: a report arrives; record_traffic takes the date
RtStart(c) ==
    /\ conn[c].pc = "idle"
    /\ RequestsStarted < MaxRequests
    /\ NodeOf[c] \in db.nodes
    /\ \E data \in ReportBatches(db) :
          /\ EntriesAnswered(answers) + EntriesInFlight(Conns) + Len(data) <= MaxLogs
          /\ conn' = [conn EXCEPT ![c].pc = "rt_entry", ![c].node = NodeOf[c],
                                  ![c].batch = data, ![c].idx = 1,
                                  ![c].today = Today(now)]
    /\ UNCHANGED <<db, now, last, writer, wtx, answers>>

\* record_traffic: one pass of the loop.  The entry is skipped, or its two
\* INSERTs are made in the transaction of the connection; an INSERT that
\* raises ends the request and the transaction is lost.
RtEntry(c) ==
    /\ conn[c].pc = "rt_entry"
    /\ conn[c].idx <= Len(conn[c].batch)
    /\ LET e == conn[c].batch[conn[c].idx]
           parsed == ParseEmail(e.email)
       IN  IF parsed.skip \/ e.uplink + e.downlink <= 0
           THEN /\ conn' = [conn EXCEPT ![c].idx = @ + 1]
                /\ UNCHANGED <<writer, wtx, answers>>
           ELSE /\ CanWrite(c)
                /\ IF TrafficForeignKeyFailed(View(c), parsed.user_id, conn[c].node)
                   THEN /\ writer' = NoConn
                        /\ wtx' = EmptyStore
                        /\ Respond(c, "record_traffic",
                                   [batch |-> conn[c].batch, today |-> conn[c].today],
                                   "FOREIGN KEY constraint failed")
                   ELSE /\ wtx' = InsertTraffic(View(c), parsed.user_id, conn[c].node,
                                                e.uplink, e.downlink, conn[c].today)
                        /\ writer' = c
                        /\ conn' = [conn EXCEPT ![c].idx = @ + 1]
                        /\ UNCHANGED answers
    /\ UNCHANGED <<db, now, last>>

\* record_traffic: db.commit() after the loop, and the response
RtCommit(c) ==
    /\ conn[c].pc = "rt_entry"
    /\ conn[c].idx > Len(conn[c].batch)
    /\ IF writer = c
       THEN Commit(c)
       ELSE UNCHANGED <<db, writer, wtx>>
    /\ Respond(c, "record_traffic",
               [batch |-> conn[c].batch, today |-> conn[c].today], "ok")
    /\ UNCHANGED <<now, last>>

NextReport ==
    \/ ReportTick
    \/ \E c \in Conns :
          \/ RtStart(c)
          \/ RtEntry(c)
          \/ RtCommit(c)

SpecReport == InitReport /\ [][NextReport]_vars

\* the webhook deliveries of SpecWebhook while the clock moves
NextRedelivery ==
    \/ ReportTick
    \/ NextWebhook

SpecRedelivery == InitWebhook /\ [][NextRedelivery]_vars

-----------------------------------------------------------------------------
(* The payment gateway (web/crypto_pay.py): the signature of a webhook and *)
(* the outbound create-invoice call                                        *)

\* CRYPTOBOT_API_TOKEN as the process may have it: unset, or the credential
ApiTokens == {"", "t1"}

\* the tokens a sender of a webhook may know
SenderTokens == {"", "t1", "t2"}

\* hashlib.sha256(x).digest() and hmac.new(key, msg, sha256).hexdigest():
\* hash functions, taken to be free of collisions
Sha256(x) == <<"sha256", x>>
HmacSha256(key, msg) == <<"hmac", key, msg>>

\* the crypto-pay-api-signature header when the request has none
NoSignature == <<>>

\* raw bodies: JSON objects with an update_type and a payload.invoice_id
Bodies ==
    [update_type : {"invoice_paid", "invoice_created"}, invoice_id : Invoices]

Signatures ==
    {NoSignature} \cup {HmacSha256(Sha256(t), b) : t \in SenderTokens, b \in Bodies}

\* (mutant) the digest is not compared with the one under the credential
verify_webhook_any_key(api_token, body_bytes, signature) ==
    IF api_token = "" \/ signature = NoSignature THEN FALSE
    ELSE \E t \in SenderTokens : signature = HmacSha256(Sha256(t), body_bytes)

verify_webhook(api_token, body_bytes, signature) ==
    IF api_token = "" \/ signature = NoSignature THEN FALSE
    ELSE HmacSha256(Sha256(api_token), body_bytes) = signature

\* the response of payment_webhook
WebhookStatus(s, api_token, body, signature) ==
    IF ~verify_webhook(api_token, body, signature) THEN "invalid_signature"
    ELSE IF body.update_type # "invoice_paid" THEN "ignored"
    ELSE IF confirm_payment_found(s, body.invoice_id) THEN "confirmed"
    ELSE "not_found"

\* POST /api/payment/webhook, signature check included
PaymentWebhookSigned ==
    /\ \E api_token \in ApiTokens, body \in Bodies, signature \in Signatures :
          LET status == WebhookStatus(db, api_token, body, signature)
          IN  /\ db' = IF status \in {"confirmed", "not_found"}
                       THEN confirm_payment(db, body.invoice_id, now)
                       ELSE db
              /\ last' = [Req("payment_webhook") EXCEPT
                             !.inv = body.invoice_id,
                             !.http = [api_token |-> api_token, body |-> body,
                                       signature |-> signature, status |-> status],
                             !.ok = (status = "confirmed")]
    /\ UNCHANGED <<now, conc>>

NextSigned ==
    \/ Tick
    \/ PaymentWebhookSigned

SpecSigned == InitWebhook /\ [][NextSigned]_vars

\* what requests.post and resp.json() of create_invoice can come to: no
\* answer in 15 s, no connection, a body that is not JSON, a JSON answer
\* without "ok", an "ok" answer without result.invoice_id, an invoice
GatewayOutcomes ==
    [kind : {"timeout", "transport_error", "malformed", "not_ok", "no_invoice_id"},
     invoice_id : {""}]
    \cup [kind : {"ok"}, invoice_id : Invoices]

\* the request ended before create_invoice was called
NoCall == [api_token |-> "", outcome |-> [kind |-> "none", invoice_id |-> ""]]

\* (mutant) the call is made without a credential
create_invoice_without_token(api_token, outcome) ==
    IF outcome.kind = "ok" THEN <<outcome.invoice_id>> ELSE NULL

\* create_invoice: the dict it returns, as the sequence of its one invoice_id,
\* or NULL for None
create_invoice(api_token, outcome) ==
    IF api_token = "" THEN NULL
    ELSE IF outcome.kind = "ok" THEN <<outcome.invoice_id>>
    ELSE NULL

\* payment_create: the request arrives, the user is looked up by code and
\* the price and duration settings are read
PcStart(c) ==
    /\ conn[c].pc = "idle"
    /\ RequestsStarted < MaxRequests
    /\ \E code \in Codes :
          LET user_id == get_user_by_code(View(c), code)
          IN  IF user_id = 0
              THEN Respond(c, "create_payment", [call |-> NoCall], "User not found")
              ELSE /\ conn' = [conn EXCEPT
                                  ![c].pc = "pc_invoice", ![c].referral = code,
                                  ![c].uid = user_id,
                                  ![c].days = get_setting(View(c), "vip_duration_days")]
                   /\ UNCHANGED answers
    /\ UNCHANGED <<db, now, last, writer, wtx>>

\* payment_create: create_invoice is called, once, and returns
PcInvoice(c) ==
    /\ conn[c].pc = "pc_invoice"
    /\ \E api_token \in ApiTokens, outcome \in GatewayOutcomes :
          LET call == [api_token |-> api_token, outcome |-> outcome]
              result == create_invoice(api_token, outcome)
          IN  IF result = NULL
              THEN Respond(c, "create_payment",
                           [call |-> call],
                           "Could not create invoice")
              ELSE /\ conn' = [conn EXCEPT ![c].pc = "pc_insert", ![c].inv = result[1],
                                           ![c].gateway = call]
                   /\ UNCHANGED answers
    /\ UNCHANGED <<db, now, last, writer, wtx>>

\* create_payment: INSERT INTO payments; the exception it may raise ends the
\* request
PcInsert(c) ==
    /\ conn[c].pc = "pc_insert"
    /\ CanWrite(c)
    /\ IF create_payment_ok(View(c), conn[c].uid, conn[c].inv)
       THEN /\ wtx' = create_payment(View(c), conn[c].uid, conn[c].days, conn[c].inv)
            /\ writer' = c
            /\ conn' = [conn EXCEPT ![c].pc = "pc_commit"]
            /\ UNCHANGED answers
       ELSE /\ Respond(c, "create_payment",
                       [call |-> conn[c].gateway],
                       "IntegrityError")
            /\ UNCHANGED <<writer, wtx>>
    /\ UNCHANGED <<db, now, last>>

\* create_payment: db.commit(); the pay_url is returned
PcCommit(c) ==
    /\ conn[c].pc = "pc_commit"
    /\ Commit(c)
    /\ Respond(c, "create_payment",
               [call |-> conn[c].gateway], "ok")
    /\ UNCHANGED <<now, last>>

InitInvoice ==
    /\ db = TwoUsers
    /\ now = 0
    /\ last = Req("none")
    /\ conn = ConnIdle
    /\ writer = NoConn
    /\ wtx = EmptyStore
    /\ answers = {}

NextInvoice ==
    \E c \in Conns :
        \/ PcStart(c)
        \/ PcInvoice(c)
        \/ PcInsert(c)
        \/ PcCommit(c)

SpecInvoice == InitInvoice /\ [][NextInvoice]_vars

-----------------------------------------------------------------------------
(* Registrations served one at a time, _gen_referral_code one attempt at a *)
(* time                                                                    *)

MaxAttempts == 100

InitGen ==
    /\ db = OneUser
    /\ now = 0
    /\ last = Req("none")
    /\ conn = ConnIdle
    /\ writer = NoConn
    /\ wtx = EmptyStore
    /\ answers = {}

\* (mutant) the loop makes one attempt more before it gives up
ExhaustedLate(attempts) == attempts > MaxAttempts

\* for _ in range(100): the loop is over
Exhausted(attempts) == attempts >= MaxAttempts

\* client_register: a valid request arrives and create_user is entered
GenStart(c) ==
    /\ \A d \in Conns : conn[d].pc = "idle"
    /\ RequestsStarted < MaxRequests
    /\ \E nickname \in Nicknames, referral \in Codes \cup {NoCode} :
          conn' = [conn EXCEPT ![c].pc = "gen_draw", ![c].nickname = nickname,
                               ![c].referral = referral]
    /\ UNCHANGED <<db, now, last, writer, wtx, answers>>

\* _gen_referral_code: one pass of the loop, a code drawn and looked up
GenDraw(c) ==
    /\ conn[c].pc = "gen_draw"
    /\ ~Exhausted(conn[c].attempts)
    /\ \E code \in Codes :
          conn' = [conn EXCEPT
                      ![c].attempts = @ + 1,
                      ![c].ref_code = code,
                      ![c].pc = IF UsersByCode(View(c), code) = {}
                                THEN "gen_create" ELSE "gen_draw"]
    /\ UNCHANGED <<db, now, last, writer, wtx, answers>>

\* _gen_referral_code: raise RuntimeError, answered by client_register
GenRaise(c) ==
    /\ conn[c].pc = "gen_draw"
    /\ Exhausted(conn[c].attempts)
    /\ Respond(c, "create_user", "", "Could not generate unique referral code")
    /\ UNCHANGED <<db, now, last, writer, wtx>>

\* create_user from the code returned to its commit, and the response
GenCreate(c) ==
    /\ conn[c].pc = "gen_create"
    /\ \E user_uuid \in uuid4(db) :
          /\ db' = create_user(db, user_uuid, conn[c].nickname, conn[c].referral,
                               conn[c].ref_code, now)
          /\ Respond(c, "create_user", "",
                     IF create_user_ok(db, user_uuid, conn[c].referral, conn[c].ref_code)
                     THEN "ok"
                     ELSE InsertUserError(db, user_uuid, conn[c].ref_code,
                                          ResolveReferrer(db, conn[c].referral)))
    /\ UNCHANGED <<now, last, writer, wtx>>

NextGen ==
    \E c \in Conns :
        \/ GenStart(c)
        \/ GenDraw(c)
        \/ GenRaise(c)
        \/ GenCreate(c)

SpecGen == InitGen /\ [][NextGen]_vars

-----------------------------------------------------------------------------
(* Extensions by the administrator served concurrently                     *)

\* the days of an extend request; 0 is allowed
AdminDays == {0, 1, 2}

\* the UPDATE of extend_subscription, from the expiry get_user returned
ExtendFrom(s, user_id, base, days, t) ==
    IF user_id \notin DOMAIN s.users THEN s
    ELSE [s EXCEPT !.users[user_id].subscription_expires_at =
                       NewExpires(base, days, t)]

\* the answer of admin_extend, with the user and the days of the request
ExtendAnswer(c) ==
    [c |-> c, n |-> conn[c].n, op |-> "extend_subscription", inv |-> "",
     status |-> "ok", uid |-> conn[c].uid, days |-> conn[c].days]

InitExtend ==
    /\ db = OneUser
    /\ now = 0
    /\ last = Req("none")
    /\ conn = ConnIdle
    /\ writer = NoConn
    /\ wtx = EmptyStore
    /\ answers = {}

\* admin_extend: a request arrives
AeStart(c) ==
    /\ conn[c].pc = "idle"
    /\ RequestsStarted < MaxRequests
    /\ \E user_id \in 1..2, days \in AdminDays :
          conn' = [conn EXCEPT ![c].pc = "ae_select", ![c].uid = user_id,
                               ![c].days = days]
    /\ UNCHANGED <<db, now, last, writer, wtx, answers>>

\* extend_subscription: get_user; without a row it returns and the handler
\* answers ok
AeSelect(c) ==
    /\ conn[c].pc = "ae_select"
    /\ IF get_user(View(c), conn[c].uid) = NULL
       THEN /\ conn' = [conn EXCEPT ![c] = IdleConn(conn[c].n + 1)]
            /\ answers' = answers \cup {ExtendAnswer(c)}
       ELSE /\ conn' = [conn EXCEPT
                           ![c].pc = "ae_update",
                           ![c].base = View(c).users[conn[c].uid].subscription_expires_at]
            /\ UNCHANGED answers
    /\ UNCHANGED <<db, now, last, writer, wtx>>

\* extend_subscription: UPDATE users SET subscription_expires_at = ? ...
AeUpdate(c) ==
    /\ conn[c].pc = "ae_update"
    /\ CanWrite(c)
    /\ wtx' = ExtendFrom(View(c), conn[c].uid, conn[c].base, conn[c].days, now)
    /\ writer' = c
    /\ conn' = [conn EXCEPT ![c].pc = "ae_commit"]
    /\ UNCHANGED <<db, now, last, answers>>

\* extend_subscription: db.commit(); the handler answers ok
AeCommit(c) ==
    /\ conn[c].pc = "ae_commit"
    /\ Commit(c)
    /\ conn' = [conn EXCEPT ![c] = IdleConn(conn[c].n + 1)]
    /\ answers' = answers \cup {ExtendAnswer(c)}
    /\ UNCHANGED <<now, last>>

NextExtend ==
    \/ ReportTick
    \/ \E c \in Conns :
          \/ AeStart(c)
          \/ AeSelect(c)
          \/ AeUpdate(c)
          \/ AeCommit(c)

SpecExtend == InitExtend /\ [][NextExtend]_vars

-----------------------------------------------------------------------------
(* Claims checked under SpecLedger *)

ReferralsOf(s, referrer_id) == {r \in s.referrals : r.referrer_id = referrer_id}

\* C4: DeleteUser(u) of an existing user u, referrer of other users or not,
\* succeeds and removes the User row and every row that references u.
C4_DeleteUserCascades ==
    last.op = "delete_user" =>
        /\ last.ok
        /\ last.uid \notin DOMAIN db.users
        /\ RowsReferencing(db, last.uid) = {}

\* C6: ActiveClients returns a user only if the user is active and the expiry
\* is absent or strictly later than the instant of the call.
C6_ActiveOnlyIfUnexpired ==
    \A u \in DOMAIN db.users :
        Email(u) \in get_active_clients(db, now) =>
            /\ db.users[u].status = "active"
            /\ \/ db.users[u].subscription_expires_at = NULL
               \/ FromIsoFormat(db.users[u].subscription_expires_at) > now

\* C8: creating B with the referral code of an existing user A sets
\* B.referred_by = A, inserts exactly one Referral(A,B) row carrying the bonus
\* setting of that moment, moves A's expiry to max(now, old expiry) + bonus
\* days, and changes no other user's expiry.
C8_ReferralBonusApplied ==
    [][(last'.op = "create_user" /\ last'.ok /\ ResolveReferrer(db, last'.code) # 0) =>
          LET A == ResolveReferrer(db, last'.code)
              B == last'.uid
              bonus == db.settings.referral_bonus_days
              old == db.users[A].subscription_expires_at
              old_dt == IF old = NULL THEN now ELSE FromIsoFormat(old)
              edge == [referrer_id |-> A, referred_id |-> B, bonus_days |-> bonus]
          IN  /\ B \notin DOMAIN db.users
              /\ B \in DOMAIN db'.users
              /\ db'.users[B].referred_by = A
              /\ db'.referrals = db.referrals \cup {edge}
              /\ {r \in db'.referrals : r.referrer_id = A /\ r.referred_id = B} = {edge}
              /\ db'.users[A].subscription_expires_at =
                     IsoFormat(Max(now, old_dt) + bonus * TicksPerDay)
              /\ \A u \in DOMAIN db.users \ {A} :
                     db'.users[u].subscription_expires_at =
                         db.users[u].subscription_expires_at
      ]_vars

\* a referred user was just created while a third user exists, the referrer's
\* subscription having run out before
C8_Witness ==
    /\ last.op = "create_user"
    /\ Cardinality(DOMAIN db.users) >= 3
    /\ \E r \in db.referrals :
          /\ r.referred_id = last.uid
          /\ db.users[r.referrer_id].subscription_expires_at =
                 IsoFormat(now + r.bonus_days * TicksPerDay)
          /\ now > TicksPerDay

\* C9: repeating a create-account request (same nickname, same referral code
\* of A) after the first attempt succeeded neither extends A's expiry again
\* nor adds a Referral row with referrer A.
C9_RetryNoDoubleBonus ==
    [][(/\ last.op = "create_user" /\ last.ok
        /\ last'.op = "create_user" /\ last'.ok
        /\ last'.uid # last.uid
        /\ last'.nickname = last.nickname
        /\ last'.code = last.code
        /\ ResolveReferrer(db, last.code) # 0
        /\ last.uid \in DOMAIN db.users
        /\ db.users[last.uid].referred_by = ResolveReferrer(db, last.code)) =>
          LET A == ResolveReferrer(db, last.code)
          IN  /\ db'.users[A].subscription_expires_at =
                     db.users[A].subscription_expires_at
              /\ Cardinality(ReferralsOf(db', A)) = Cardinality(ReferralsOf(db, A))
      ]_vars

-----------------------------------------------------------------------------
(* Claims checked under SpecTraffic *)

Unexpired(s, u, t) ==
    \/ s.users[u].subscription_expires_at = NULL
    \/ FromIsoFormat(s.users[u].subscription_expires_at) > t

\* the entries of a batch that name an existing user and carry traffic
ValidEntries(s, data) ==
    {i \in 1..Len(data) :
        /\ ~ParseEmail(data[i].email).skip
        /\ ParseEmail(data[i].email).user_id \in DOMAIN s.users
        /\ data[i].uplink + data[i].downlink > 0}

\* the entries whose well-formed identifier names a user deleted since
StaleEntries(s, data) ==
    {i \in 1..Len(data) :
        /\ ~ParseEmail(data[i].email).skip
        /\ ParseEmail(data[i].email).user_id \in (1..s.user_seq) \ DOMAIN s.users}

\* C5: a batch that mixes entries of existing users with well-formed
\* identifiers of deleted users does not fail; the stale entries are dropped
\* and every valid entry is recorded in TrafficLog and DailyTraffic.
C5_StaleEntriesDropped ==
    [][(/\ last'.op = "record_traffic"
        /\ ValidEntries(db, last'.batch) # {}
        /\ StaleEntries(db, last'.batch) # {}) =>
          /\ last'.ok
          /\ \A i \in ValidEntries(db, last'.batch) :
                LET e == last'.batch[i]
                    u == ParseEmail(e.email).user_id
                IN  /\ get_user_traffic_today(db', u, now) =
                           get_user_traffic_today(db, u, now) + e.uplink + e.downlink
                    /\ \E k \in DOMAIN db'.traffic_logs \ DOMAIN db.traffic_logs :
                           /\ db'.traffic_logs[k].user_id = u
                           /\ db'.traffic_logs[k].uplink_bytes = e.uplink
                           /\ db'.traffic_logs[k].downlink_bytes = e.downlink
      ]_vars

\* C7: ActiveClients excludes a free-tier user with a positive daily limit
\* whenever today's total is >= limit * 2^20 bytes, includes the user while the
\* total is below it (if active and unexpired), and never excludes a vip user
\* because of traffic.
C7_QuotaBoundary ==
    \A u \in DOMAIN db.users :
        LET row == db.users[u]
            used == get_user_traffic_today(db, u, now)
            listed == Email(u) \in get_active_clients(db, now)
            entitled == row.status = "active" /\ Unexpired(db, u, now)
        IN  /\ (row.tier = "free" /\ row.daily_traffic_limit_mb > 0
                  /\ used >= row.daily_traffic_limit_mb * 1048576) => ~listed
            /\ (row.tier = "free" /\ row.daily_traffic_limit_mb > 0 /\ entitled
                  /\ used < row.daily_traffic_limit_mb * 1048576) => listed
            /\ (row.tier = "vip" /\ entitled) => listed

\* the report that brought a free user exactly to the limit has just been
\* recorded, and a vip user above the limit of the free tier is still listed
C7_Witness ==
    /\ last.op = "record_traffic" /\ last.ok
    /\ \E u \in DOMAIN db.users :
          /\ db.users[u].tier = "free"
          /\ get_user_traffic_today(db, u, now) =
                 db.users[u].daily_traffic_limit_mb * 1048576
          /\ Email(u) \notin get_active_clients(db, now)
    /\ \E v \in DOMAIN db.users :
          /\ db.users[v].tier = "vip"
          /\ get_user_traffic_today(db, v, now) >= 1048576
          /\ Email(v) \in get_active_clients(db, now)

-----------------------------------------------------------------------------
(* Claims checked under SpecPay *)

\* C1: the first ConfirmPayment(i) on a pending payment reports success, marks
\* the payment paid, makes the user vip (daily limit 0, device limit = the vip
\* default) and moves the expiry to max(now, old expiry) + days_added; a
\* ConfirmPayment(i) run after it reports not-found and changes nothing.
C1_ConfirmIdempotent ==
    [][(last'.op = "confirm_payment") =>
          LET pending == {k \in DOMAIN db.payments :
                              /\ db.payments[k].crypto_invoice_id = last'.inv
                              /\ db.payments[k].status = "pending"}
          IN  IF pending # {}
              THEN /\ last'.ok
                   /\ \A k \in pending :
                         LET u == db.payments[k].user_id
                             old == db.users[u].subscription_expires_at
                             old_dt == IF old = NULL THEN now ELSE FromIsoFormat(old)
                         IN  /\ db'.payments[k].status = "paid"
                             /\ db'.users[u].tier = "vip"
                             /\ db'.users[u].daily_traffic_limit_mb = 0
                             /\ db'.users[u].device_limit = db.settings.vip_device_limit
                             /\ db'.users[u].subscription_expires_at =
                                    IsoFormat(Max(now, old_dt)
                                              + db.payments[k].days_added * TicksPerDay)
              ELSE /\ ~last'.ok
                   /\ db' = db
      ]_vars

\* a replay of an invoice confirmed on a later day than its creation has just
\* been answered not-found
C1_Witness ==
    /\ last.op = "confirm_payment" /\ ~last.ok
    /\ \E k \in DOMAIN db.payments :
          /\ db.payments[k].crypto_invoice_id = last.inv
          /\ db.payments[k].status = "paid"
          /\ db.users[db.payments[k].user_id].tier = "vip"
          /\ db.payments[k].paid_at[1] >= 1

\* C14: ExtendSubscription(u, d) sets the expiry of u to max(now, stored
\* expiry) + d days: now + d when the stored expiry is past, stored expiry + d
\* when it is ahead; it changes no other field of u, no other user and no
\* other table, and changes nothing at all when u does not exist.
C14_ExtendFromMaxOfNowAndExpiry ==
    [][(last'.op = "extend_subscription") =>
          LET u == last'.uid
              d == last'.days * TicksPerDay
          IN  IF u \in DOMAIN db.users
              THEN LET stored == db.users[u].subscription_expires_at
                       old == IF stored = NULL THEN now ELSE FromIsoFormat(stored)
                       new == FromIsoFormat(db'.users[u].subscription_expires_at)
                   IN  /\ old < now => new = now + d
                       /\ old >= now => new = old + d
                       /\ db' = [db EXCEPT !.users[u].subscription_expires_at =
                                     db'.users[u].subscription_expires_at]
              ELSE db' = db
      ]_vars

\* a subscription that had run out has just been extended, and it now ends
\* the given number of days after the present moment
C14_Witness ==
    /\ last.op = "extend_subscription"
    /\ last.uid \in DOMAIN db.users
    /\ now % TicksPerDay # 0
    /\ FromIsoFormat(db.users[last.uid].subscription_expires_at) =
           now + last.days * TicksPerDay

\* C23: at most one payment row carries a given invoice id; a create-payment
\* with an invoice id that is already stored fails and leaves the store as it
\* was, so no invoice id is ever paid on two rows.
C23_InvoiceIdUnique ==
    /\ [](\A i \in Invoices :
            Cardinality({k \in DOMAIN db.payments :
                            db.payments[k].crypto_invoice_id = i}) <= 1)
    /\ [][(/\ last'.op = "create_payment"
            /\ \E k \in DOMAIN db.payments :
                  db.payments[k].crypto_invoice_id = last'.inv) =>
              /\ ~last'.ok
              /\ db' = db
         ]_vars

\* a create-payment for an existing user has just failed on an invoice id
\* that a paid payment already carries
C23_Witness ==
    /\ last.op = "create_payment"
    /\ ~last.ok
    /\ last.uid \in DOMAIN db.users
    /\ \E k \in DOMAIN db.payments :
          /\ db.payments[k].crypto_invoice_id = last.inv
          /\ db.payments[k].status = "paid"

-----------------------------------------------------------------------------
(* Claims checked under SpecWebhook *)

Confirmed(invoice_id) ==
    {a \in answers : a.op = "confirm_payment" /\ a.inv = invoice_id
                                              /\ a.status = "confirmed"}

\* C2: whatever the interleaving of the deliveries for one invoice id, exactly
\* one of them is answered confirmed and the user's expiry is extended by
\* days_added once, never twice.
C2_ConfirmedOnce ==
    \A k \in DOMAIN db.payments :
        LET invoice_id == db.payments[k].crypto_invoice_id
            u == db.payments[k].user_id
            before == FromIsoFormat(TwoPendingPayments.users[u].subscription_expires_at)
        IN  /\ Cardinality(Confirmed(invoice_id)) <= 1
            /\ FromIsoFormat(db.users[u].subscription_expires_at)
                   \in {before, before + db.payments[k].days_added * TicksPerDay}

\* C3: no committed state has a payment marked paid while its user is not yet
\* vip with the vip limits, or paid without the extension.
C3_ConfirmAtomic ==
    \A k \in DOMAIN db.payments :
        db.payments[k].status = "paid" =>
            LET u == db.payments[k].user_id
            IN  /\ db.users[u].tier = "vip"
                /\ db.users[u].daily_traffic_limit_mb = 0
                /\ db.users[u].device_limit = db.settings.vip_device_limit
                /\ db.users[u].subscription_expires_at #
                       TwoPendingPayments.users[u].subscription_expires_at

-----------------------------------------------------------------------------
(* Claims checked under SpecRegister *)

HasEdge(s, a, b) == \E r \in s.referrals : r.referrer_id = a /\ r.referred_id = b

\* C10: CreateUser with a resolved referrer commits the user row, the
\* Referral row and the referrer's extension in one transaction: in every
\* committed state a Referral(A,B) row exists if and only if user B exists
\* with referred_by = A, a Referral row is never committed without A's
\* extension for it, and every commit that makes an extension of A visible
\* makes its Referral row visible in the same step.
C10_CreateUserAtomic ==
    /\ [](/\ \A r \in db.referrals :
              /\ r.referred_id \in DOMAIN db.users
              /\ db.users[r.referred_id].referred_by = r.referrer_id
              /\ <<r.referrer_id, r.referred_id>> \in db.bonus_log
          /\ \A b \in DOMAIN db.users :
              db.users[b].referred_by # 0 => HasEdge(db, db.users[b].referred_by, b))
    /\ [][\A p \in db.bonus_log' \ db.bonus_log : HasEdge(db', p[1], p[2])]_vars

\* a registration with the code of user 1 is committed while another
\* connection is in the middle of its own registration with that code, its
\* user row inserted and its referral row not yet
C10_Witness ==
    /\ \E r \in db.referrals : r.referrer_id = 1
    /\ \E c \in Conns :
          /\ conn[c].pc = "cu_bonus"
          /\ conn[c].referred_by = 1
          /\ conn[c].uid \in DOMAIN wtx.users
          /\ conn[c].uid \notin DOMAIN db.users

UniqueUsers(s) ==
    \A u, v \in DOMAIN s.users :
        u # v => /\ s.users[u].referral_code # s.users[v].referral_code
                 /\ s.users[u].uuid # s.users[v].uuid

\* C11: in every reachable state, under any interleaving of concurrent
\* CreateUser calls, no two User rows share a referral_code and no two share
\* a uuid (in the committed store and in the transaction being written).
C11_UniqueCodesAndUuids ==
    /\ UniqueUsers(db)
    /\ writer # NoConn => UniqueUsers(wtx)

\* two registrations ran side by side with the same code drawn and with the
\* same uuid drawn: the second INSERT of each pair was refused
C11_Witness ==
    /\ \E a \in answers : a.status = "UNIQUE constraint failed: users.referral_code"
    /\ \E a \in answers : a.status = "UNIQUE constraint failed: users.uuid"
    /\ Cardinality(DOMAIN db.users) >= 2

\* C12: a registration whose drawn code was taken by a concurrent one between
\* its existence check and its INSERT draws and checks another code and ends
\* with a created user: no registration is answered with the collision.
C12_CollisionRetried ==
    \A a \in answers :
        a.op = "create_user" => a.status # "UNIQUE constraint failed: users.referral_code"

-----------------------------------------------------------------------------
(* Claims checked under SpecGen *)

\* C13: referral-code generation stops after at most 100 attempts; when all of
\* them collided, the request is answered with the error and the ledger is
\* what it was: no User row, no Referral row, no referrer's expiry changed.
C13_GenerationBounded ==
    /\ [](\A c \in Conns : conn[c].attempts <= 100)
    /\ [][\A c \in Conns :
            (conn[c].pc = "gen_draw" /\ conn[c].attempts = 100) =>
                \/ conn'[c] = conn[c]
                \/ /\ conn'[c].pc = "idle"
                   /\ db' = db
                   /\ answers' \ answers =
                          {Answer(c, "create_user", "",
                                  "Could not generate unique referral code")}
         ]_vars

\* a registration that named a referrer has been refused after its hundredth
\* colliding draw, a registration before it having succeeded
C13_Witness ==
    /\ \E a \in answers : a.status = "Could not generate unique referral code"
    /\ \E a \in answers : a.status = "ok"
    /\ \A c \in Conns : conn[c].pc = "idle"

-----------------------------------------------------------------------------
(* Claims checked under SpecReport *)

\* an identifier without the prefix, without "@", or with a non-numeric id part
Malformed(email) == email.first # "u" \/ ~email.at \/ ~email.numeric

\* an entry that is to be recorded
Counted(e) == ~Malformed(e.email) /\ e.uplink + e.downlink > 0

OkReports == {a \in answers : a.op = "record_traffic" /\ a.status = "ok"}

\* the bytes a batch reports for user u
RECURSIVE BatchBytes(_, _)
BatchBytes(batch, u) ==
    IF batch = <<>> THEN 0
    ELSE LET e == Head(batch)
         IN  (IF Counted(e) /\ e.email.id = u THEN e.uplink + e.downlink ELSE 0)
             + BatchBytes(Tail(batch), u)

\* the bytes the reports A, taken on the day d, report for user u
RECURSIVE ReportedBytes(_, _, _)
ReportedBytes(A, u, d) ==
    IF A = {} THEN 0
    ELSE LET a == CHOOSE x \in A : TRUE
         IN  (IF a.inv.today = d THEN BatchBytes(a.inv.batch, u) ELSE 0)
             + ReportedBytes(A \ {a}, u, d)

\* the entries of the reports A that are to be recorded
RECURSIVE CountedEntries(_)
CountedEntries(A) ==
    IF A = {} THEN 0
    ELSE LET a == CHOOSE x \in A : TRUE
         IN  Cardinality({i \in 1..Len(a.inv.batch) : Counted(a.inv.batch[i])})
             + CountedEntries(A \ {a})

\* C15: whatever the order and the interleaving of the reports of the nodes,
\* the DailyTraffic total of a user and a UTC day is the sum of uplink +
\* downlink over the entries recorded for that user and day, and there is at
\* most one DailyTraffic row per (user, day).
C15_TotalsAreSums ==
    \A u \in DOMAIN db.users, d \in 0..Today(MaxTime) :
        /\ Cardinality(DailyRows(db, u, d)) <= 1
        /\ DailyTotal(db, u, d) = ReportedBytes(OkReports, u, d)

\* two nodes have reported traffic of the same user on the same day over
\* their own connections, and the total holds both reports
C15_Witness ==
    \E a, b \in OkReports, u \in DOMAIN db.users :
        /\ a.c # b.c
        /\ a.inv.today = b.inv.today
        /\ BatchBytes(a.inv.batch, u) > 0
        /\ BatchBytes(b.inv.batch, u) > 0
        /\ DailyTotal(db, u, a.inv.today) =
               BatchBytes(a.inv.batch, u) + BatchBytes(b.inv.batch, u)

\* C16: an entry with a malformed identifier and an entry whose total is zero
\* create no TrafficLog row and no DailyTraffic row and change no total, and
\* the report goes on with its other entries, which are recorded.
C16_SkippedEntriesLeaveNoTrace ==
    /\ [](/\ \A a \in answers : a.status = "ok"
          /\ Cardinality(DOMAIN db.traffic_logs) = CountedEntries(OkReports)
          /\ \A k \in DOMAIN db.traffic_logs :
                \E a \in OkReports : \E i \in 1..Len(a.inv.batch) :
                    LET e == a.inv.batch[i]
                    IN  /\ Counted(e)
                        /\ e.email.id = db.traffic_logs[k].user_id
                        /\ e.uplink = db.traffic_logs[k].uplink_bytes
                        /\ e.downlink = db.traffic_logs[k].downlink_bytes
          /\ \A k \in DOMAIN db.daily_traffic :
                db.daily_traffic[k].total_bytes =
                    ReportedBytes(OkReports, db.daily_traffic[k].user_id,
                                  db.daily_traffic[k].date))
    /\ [][\A c \in Conns :
            (/\ conn[c].pc = "rt_entry"
             /\ conn[c].idx <= Len(conn[c].batch)
             /\ ~Counted(conn[c].batch[conn[c].idx])
             /\ conn'[c] # conn[c]) =>
                /\ conn'[c] = [conn[c] EXCEPT !.idx = @ + 1]
                /\ db' = db /\ wtx' = wtx /\ writer' = writer
         ]_vars

\* a report of two entries, one under a malformed identifier and one of a
\* user with traffic, has been answered: the log holds the second entry only
C16_Witness ==
    \E a \in OkReports :
        /\ Len(a.inv.batch) = 2
        /\ Malformed(a.inv.batch[1].email)
        /\ Counted(a.inv.batch[2])
        /\ Cardinality(DOMAIN db.traffic_logs) = 1
        /\ Cardinality(DOMAIN db.daily_traffic) = 1

-----------------------------------------------------------------------------
(* Claims checked under SpecAdmin                                          *)

\* C17: in every state reached by any sequence of ledger operations, every
\* user whose tier is vip has daily_traffic_limit_mb = 0.
C17_VipHasNoDailyLimit ==
    \A u \in DOMAIN db.users :
        db.users[u].tier = "vip" => db.users[u].daily_traffic_limit_mb = 0

\* C18: a set-tier request for vip leaves the user with tier vip, no daily
\* limit and the vip_device_limit setting as device limit; a set-tier request
\* for free leaves the user with tier free and the free_daily_traffic_mb and
\* free_device_limit settings as limits; each time the settings are those in
\* force at the request, whatever limits the user had before.
C18_SetTierAppliesCurrentSettings ==
    [][(/\ last'.op = "set_tier"
        /\ last'.uid \in DOMAIN db.users
        /\ last'.tier \in {"free", "vip"}) =>
            LET after == db'.users[last'.uid]
            IN  /\ db'.settings = db.settings
                /\ after.tier = last'.tier
                /\ last'.tier = "vip" =>
                       /\ after.daily_traffic_limit_mb = 0
                       /\ after.device_limit = db.settings["vip_device_limit"]
                /\ last'.tier = "free" =>
                       /\ after.daily_traffic_limit_mb =
                              db.settings["free_daily_traffic_mb"]
                       /\ after.device_limit = db.settings["free_device_limit"]
      ]_vars

\* a user who was vip and whose limits were changed since is free again,
\* under free defaults that are no longer the settings the ledger started with
C18_Witness ==
    /\ last.op = "set_tier"
    /\ last.tier = "free"
    /\ last.uid \in DOMAIN db.users
    /\ db.settings["free_daily_traffic_mb"] # SavedSettings["free_daily_traffic_mb"]
    /\ db.settings["free_device_limit"] # SavedSettings["free_device_limit"]
    /\ db.users[last.uid].tier = "free"
    /\ db.users[last.uid].daily_traffic_limit_mb = db.settings["free_daily_traffic_mb"]
    /\ db.users[last.uid].device_limit = db.settings["free_device_limit"]
    /\ \E k \in DOMAIN db.payments :
          /\ db.payments[k].user_id = last.uid
          /\ db.payments[k].status = "paid"

\* C19: in every reachable state the tier of every user is free or vip,
\* whatever tier value a caller passes.
C19_TierIsFreeOrVip ==
    \A u \in DOMAIN db.users : db.users[u].tier \in {"free", "vip"}

-----------------------------------------------------------------------------
(* Claims checked under SpecOne                                            *)

\* C20: an operation that does not delete a user (a registration, also one
\* with this user's code, update_user with any keys, a tier change, a
\* block, an extension, a confirmed payment, the deletion of someone else)
\* leaves the user's uuid, referral_code and referred_by as they were;
\* update_user writes the allow-listed keys it is given to the one user,
\* ignores every other key and raises no error.
C20_IdentityFieldsImmutable ==
    [][/\ \A u \in DOMAIN db.users \cap DOMAIN db'.users :
             /\ db'.users[u].uuid = db.users[u].uuid
             /\ db'.users[u].referral_code = db.users[u].referral_code
             /\ db'.users[u].referred_by = db.users[u].referred_by
       /\ last'.op = "update_user" =>
             LET listed == {"nickname", "tier", "status", "device_limit",
                            "daily_traffic_limit_mb", "subscription_expires_at",
                            "telegram_id", "telegram_username"}
                 fields == last'.fields
             IN  /\ last'.ok
                 /\ DOMAIN db'.users = DOMAIN db.users
                 /\ \A u \in DOMAIN db.users : \A k \in DOMAIN db.users[u] :
                        db'.users[u][k] =
                            IF u = last'.uid /\ k \in listed \cap DOMAIN fields
                            THEN fields[k] ELSE db.users[u][k]
                 /\ [db' EXCEPT !.users = db.users] = db
      ]_vars

\* update_user was given a status next to a uuid, a referral code and a
\* referrer for a user who was referred: the user is blocked and still has
\* their own uuid, code and referrer
C20_Witness ==
    /\ last.op = "update_user"
    /\ {"status", "uuid", "referral_code", "referred_by"} \subseteq DOMAIN last.fields
    /\ last.uid \in DOMAIN db.users
    /\ LET row == db.users[last.uid]
       IN  /\ row.status = last.fields.status
           /\ row.referred_by # 0
           /\ row.referred_by # last.fields.referred_by
           /\ row.referral_code # last.fields.referral_code
           /\ row.uuid # last.fields.uuid

\* C21: the user a registration creates has tier free, status active, the
\* free_device_limit and free_daily_traffic_mb settings of that moment as
\* limits, and an expiry of the creation time plus the trial_days setting of
\* that moment.
C21_NewUserDefaults ==
    [][(last'.op = "create_user" /\ last'.ok) =>
          /\ last'.uid \notin DOMAIN db.users
          /\ DOMAIN db'.users = DOMAIN db.users \cup {last'.uid}
          /\ LET row == db'.users[last'.uid]
             IN  /\ row.tier = "free"
                 /\ row.status = "active"
                 /\ row.device_limit = db.settings["free_device_limit"]
                 /\ row.daily_traffic_limit_mb = db.settings["free_daily_traffic_mb"]
                 /\ row.subscription_expires_at =
                        IsoFormat(now + db.settings["trial_days"] * TicksPerDay)
      ]_vars

\* a user was registered after the clock had advanced and after the trial
\* days and both free limits had been changed from their first values
C21_Witness ==
    /\ last.op = "create_user"
    /\ last.ok
    /\ now > 0
    /\ db.settings["trial_days"] # SavedSettings["trial_days"]
    /\ db.settings["free_device_limit"] # SavedSettings["free_device_limit"]
    /\ db.settings["free_daily_traffic_mb"] # SavedSettings["free_daily_traffic_mb"]
    /\ Cardinality(DOMAIN db.users) = 3
    /\ db.users[last.uid].device_limit = db.settings["free_device_limit"]
    /\ db.users[last.uid].subscription_expires_at =
           IsoFormat(now + db.settings["trial_days"] * TicksPerDay)

-----------------------------------------------------------------------------
(* Claims checked under SpecRedelivery                                     *)

\* C22: a payment row is created pending; its status changes at most once,
\* from pending to paid; once it is paid no operation returns it to pending
\* or rewrites its paid timestamp.
C22_PaidIsTerminal ==
    [][\A k \in DOMAIN db'.payments :
          IF k \notin DOMAIN db.payments
          THEN db'.payments[k].status = "pending"
          ELSE /\ db.payments[k].status = "paid" => db'.payments[k] = db.payments[k]
               /\ db'.payments[k].status # db.payments[k].status =>
                      /\ db.payments[k].status = "pending"
                      /\ db'.payments[k].status = "paid"
      ]_vars

-----------------------------------------------------------------------------
(* Claims checked under SpecSigned                                         *)

\* C24: through the webhook a payment becomes paid, and a user's tier and
\* expiry change, only if the signature is the HMAC of the raw body under
\* the SHA-256 of the configured credential and the type is invoice_paid; a
\* request without a signature, with another signature, or received while
\* no credential is configured is rejected and changes nothing; a verified
\* notification of another type changes nothing.
C24_WebhookNeedsSignature ==
    [][last'.op = "payment_webhook" =>
          LET h == last'.http
              genuine == /\ h.api_token # ""
                         /\ h.signature # NoSignature
                         /\ h.signature = <<"hmac", <<"sha256", h.api_token>>, h.body>>
          IN  /\ ~genuine => (h.status = "invalid_signature" /\ db' = db)
              /\ (genuine /\ h.body.update_type # "invoice_paid") =>
                     (h.status = "ignored" /\ db' = db)
              /\ db' # db =>
                     /\ genuine
                     /\ h.body.update_type = "invoice_paid"
                     /\ h.status = "confirmed"
      ]_vars

\* the pending invoice i1 is still pending after a delivery signed under
\* another token, and a delivery for i2 signed under the credential was
\* confirmed
C24_Witness ==
    /\ last.op = "payment_webhook"
    /\ last.http.status = "invalid_signature"
    /\ last.http.api_token # ""
    /\ last.http.signature = HmacSha256(Sha256("t2"), last.http.body)
    /\ last.http.body.update_type = "invoice_paid"
    /\ \E k \in DOMAIN db.payments :
          /\ db.payments[k].crypto_invoice_id = last.inv
          /\ db.payments[k].status = "pending"
    /\ \E k \in DOMAIN db.payments : db.payments[k].status = "paid"

-----------------------------------------------------------------------------
(* Claims checked under SpecInvoice                                        *)

CreateAnswers == {a \in answers : a.op = "create_payment"}

\* the create-invoice call of an answered request failed: no credential, or
\* anything but an answer with an invoice id
CallFailed(a) ==
    /\ a.inv.call # NoCall
    /\ \/ a.inv.call.api_token = ""
       \/ a.inv.call.outcome.kind # "ok"

\* C25: when the create-invoice call fails (no credential, timeout, transport
\* error, malformed or non-success answer) the request reports failure,
\* makes no second call and creates no payment row; a payment row is
\* inserted only after the gateway has returned its invoice id; the call is
\* made while the connection has no write transaction open.
C25_NoInvoiceNoPayment ==
    /\ [](/\ \A a \in CreateAnswers :
                CallFailed(a) => a.status = "Could not create invoice"
          /\ Cardinality(DOMAIN db.payments) =
                Cardinality({a \in CreateAnswers : a.status = "ok"})
          /\ \A k \in DOMAIN db.payments :
                \E a \in CreateAnswers :
                    /\ a.status = "ok"
                    /\ a.inv.call.api_token # ""
                    /\ a.inv.call.outcome.kind = "ok"
                    /\ a.inv.call.outcome.invoice_id = db.payments[k].crypto_invoice_id
          /\ \A c \in Conns :
                /\ conn[c].pc \in {"idle", "pc_invoice"} => writer # c
                /\ writer = c =>
                       /\ conn[c].gateway.outcome.kind = "ok"
                       /\ conn[c].gateway.api_token # ""
                       /\ \A k \in DOMAIN wtx.payments \ DOMAIN db.payments :
                              wtx.payments[k].crypto_invoice_id =
                                  conn[c].gateway.outcome.invoice_id)
    /\ [][\A c \in Conns :
            (conn[c].pc = "pc_invoice" /\ conn'[c] # conn[c]) =>
                /\ conn'[c].pc \in {"idle", "pc_insert"}
                /\ db' = db /\ wtx' = wtx /\ writer' = writer
                /\ conn'[c].pc = "idle" =>
                       \E a \in answers' \ answers :
                           a.c = c /\ a.status = "Could not create invoice"
         ]_vars

\* one request was answered with a failure after a timeout of the gateway,
\* another after a call without credential, a third has its payment stored:
\* the store holds that one payment
C25_Witness ==
    /\ \E a \in CreateAnswers :
          a.inv.call.outcome.kind = "timeout" /\ a.inv.call.api_token # ""
    /\ \E a \in CreateAnswers :
          a.inv.call.outcome.kind = "ok" /\ a.inv.call.api_token = ""
    /\ \E a \in CreateAnswers : a.status = "ok"
    /\ Cardinality(DOMAIN db.payments) = 1

-----------------------------------------------------------------------------
(* Further claims checked under SpecOne                                    *)

\* C26: a set-tier, block, extend, device-limit or delete request for a user
\* id that does not exist, and a fetch-status or create-payment request with
\* a code no user has, is answered not found and changes no state.
C26_UnknownUserNotFound ==
    [][(\/ /\ last'.op \in {"set_tier", "block_user", "extend_subscription",
                            "device_limit", "delete_user"}
           /\ last'.uid \notin DOMAIN db.users
        \/ /\ last'.op \in {"client_status", "create_payment"}
           /\ get_user_by_code(db, last'.code) = 0) =>
          /\ ~last'.ok
          /\ db' = db
      ]_vars

-----------------------------------------------------------------------------
(* Claims checked under SpecNickname                                       *)

\* C27: every user row created by a create-account request has a stored
\* nickname that is not empty and is 2 to 30 characters long; a request
\* whose nickname is missing or out of these bounds is rejected and changes
\* nothing.
C27_NicknameWithinBounds ==
    /\ [](\A u \in DOMAIN db.users :
            /\ db.users[u].nickname # <<>>
            /\ Len(db.users[u].nickname) >= 2
            /\ Len(db.users[u].nickname) <= 30)
    /\ [][(/\ last'.op = "create_user"
            /\ \/ Len(Strip(last'.http.nickname)) < 2
               \/ Len(Strip(last'.http.nickname)) > 30) =>
              /\ last'.http.status = 400
              /\ db' = db
         ]_vars

-----------------------------------------------------------------------------
(* Claims checked under SpecLinks                                          *)

\* text occurs in whole as a part of inside
Contains(inside, text) ==
    \E i \in 1..(Len(inside) - Len(text) + 1) :
        SubSeq(inside, i, i + Len(text) - 1) = text

\* C28: the links generated for a user hold exactly one entry per node that
\* is online and has a non-empty template; the link of the entry is the
\* template with every uuid placeholder replaced by the user's uuid and the
\* node-name placeholder by the node's name; nodes that are offline or have
\* no template contribute no entry and cause no error.
C28_LinksPerOnlineNode ==
    [][last'.op = "generate_links" =>
         LET user_uuid == UuidText(db.users[last'.uid].uuid)
             links == last'.http.links
         IN  /\ \A n \in DOMAIN db.node_rows :
                    n \in DOMAIN links <=>
                        /\ db.node_rows[n].status = "online"
                        /\ db.node_rows[n].vless_link_template # <<>>
             /\ DOMAIN links \subseteq DOMAIN db.node_rows
             /\ \A n \in DOMAIN links :
                    /\ links[n] =
                         Replace(Replace(db.node_rows[n].vless_link_template,
                                         UuidPlaceholder, user_uuid),
                                 NamePlaceholder, db.node_rows[n].node_name)
                    /\ ~Contains(links[n], UuidPlaceholder)
                    /\ ~Contains(links[n], NamePlaceholder)
                    /\ Contains(db.node_rows[n].vless_link_template, UuidPlaceholder)
                          => Contains(links[n], user_uuid)
    ]_vars

\* links were generated while one node was online with a template holding
\* both placeholders, one was online without a template and one was offline
\* with a template
C28_Witness ==
    /\ last.op = "generate_links"
    /\ \E n \in DOMAIN last.http.links :
          /\ Contains(db.node_rows[n].vless_link_template, UuidPlaceholder)
          /\ Contains(db.node_rows[n].vless_link_template, NamePlaceholder)
          /\ Contains(last.http.links[n], db.node_rows[n].node_name)
    /\ \E n \in DOMAIN db.node_rows :
          /\ db.node_rows[n].status = "online"
          /\ db.node_rows[n].vless_link # <<>>
          /\ db.node_rows[n].vless_link_template = <<>>
    /\ \E n \in DOMAIN db.node_rows :
          /\ db.node_rows[n].status = "offline"
          /\ db.node_rows[n].vless_link_template # <<>>

\* C29: when a node registers with a link that contains the identifier it
\* reports and with no explicit template, the stored template is the link
\* with every occurrence of the identifier replaced by the placeholder, and
\* the link generated from it for any user whose uuid differs from the
\* identifier contains the user's uuid and does not contain the identifier.
C29_TemplateFromIdentifier ==
    [][(/\ last'.op = "register_node"
        /\ last'.http.vless_link_template = <<>>
        /\ last'.http.uuid # <<>>
        /\ Contains(last'.http.vless_link, last'.http.uuid)) =>
         LET data == last'.http
         IN  /\ db'.node_rows[data.node_id].vless_link_template =
                    Replace(data.vless_link, data.uuid, UuidPlaceholder)
             /\ \A u \in DOMAIN db'.users :
                    LET user_uuid == UuidText(db'.users[u].uuid)
                        links == generate_vless_links(db', user_uuid)
                    IN  user_uuid # data.uuid =>
                          /\ data.node_id \in DOMAIN links
                          /\ Contains(links[data.node_id], user_uuid)
                          /\ ~Contains(links[data.node_id], data.uuid)
    ]_vars

\* C30: when a node registers with a link, with no explicit template and
\* with an identifier that does not occur in the link (an empty identifier
\* or none included), the stored template is the literal link and the link
\* generated for every user is that literal link.
C30_TemplateDegradesToLink ==
    [][(/\ last'.op = "register_node"
        /\ last'.http.vless_link_template = <<>>
        /\ last'.http.vless_link # <<>>
        /\ \/ last'.http.uuid = <<>>
           \/ ~Contains(last'.http.vless_link, last'.http.uuid)) =>
         LET data == last'.http
         IN  /\ db'.node_rows[data.node_id].vless_link_template = data.vless_link
             /\ \A u \in DOMAIN db'.users :
                    LET links == generate_vless_links(
                                     db', UuidText(db'.users[u].uuid))
                    IN  /\ data.node_id \in DOMAIN links
                        /\ links[data.node_id] = data.vless_link
    ]_vars

-----------------------------------------------------------------------------
(* Claims checked under SpecNodes                                          *)

\* the rows of the nodes table that hold the address
RowsOfAddress(s, server_ip) ==
    {n \in DOMAIN s.node_rows : s.node_rows[n].server_ip = server_ip}

\* a heartbeat changes only last-seen and status of an existing node and
\* creates no node
HeartbeatTouchesOneNode ==
    last'.op = "heartbeat" =>
        /\ DOMAIN db'.node_rows = DOMAIN db.node_rows
        /\ [db' EXCEPT !.node_rows = db.node_rows] = db
        /\ \A n \in DOMAIN db.node_rows :
              IF n = last'.http.id
              THEN db'.node_rows[n] =
                       [db.node_rows[n] EXCEPT !.status = "online",
                                               !.last_seen = now]
              ELSE db'.node_rows[n] = db.node_rows[n]

-----------------------------------------------------------------------------
(* Claims checked under SpecTraffic: the day boundary                      *)

\* the UTC calendar day of a time
UtcDay(t) == t \div TicksPerDay

\* C32: traffic recorded on day D counts only toward day D: a report leaves
\* the totals of every other day as they were; when the clock passes into
\* day D+1 with no operation in between, a free user who was excluded on
\* day D for reaching the limit is listed again if still active and
\* unexpired, and today's traffic of every user is 0 until a report arrives.
C32_QuotaPerUtcDay ==
    [][/\ last'.op = "record_traffic" =>
            \A u \in DOMAIN db.users, d \in 0..UtcDay(MaxTime) :
                d # UtcDay(now) => DailyTotal(db', u, d) = DailyTotal(db, u, d)
       /\ UtcDay(now') # UtcDay(now) =>
            \A u \in DOMAIN db.users :
                /\ get_user_traffic_today(db', u, now') = 0
                /\ (/\ db.users[u].tier = "free"
                    /\ db.users[u].daily_traffic_limit_mb > 0
                    /\ get_user_traffic_today(db, u, now) >=
                           db.users[u].daily_traffic_limit_mb * 1048576
                    /\ Email(u) \notin get_active_clients(db, now)
                    /\ db.users[u].status = "active"
                    /\ Unexpired(db, u, now')) =>
                       Email(u) \in get_active_clients(db', now')
    ]_vars

\* the clock has just passed into the next day, and a free user who had
\* reached the limit the day before is listed again with no traffic today
C32_Witness ==
    /\ last.op = "tick"
    /\ now % TicksPerDay = 0
    /\ now > 0
    /\ \E u \in DOMAIN db.users :
          /\ db.users[u].tier = "free"
          /\ DailyTotal(db, u, UtcDay(now) - 1) >=
                 db.users[u].daily_traffic_limit_mb * 1048576
          /\ db.users[u].daily_traffic_limit_mb > 0
          /\ get_user_traffic_today(db, u, now) = 0
          /\ Email(u) \in get_active_clients(db, now)

-----------------------------------------------------------------------------
(* Claims checked under SpecNodeTraffic                                    *)

\* C33: deleting a node removes its row and every traffic log row of it and
\* leaves everything else unchanged: the daily totals, hence today's traffic
\* and the list of active clients, the users, payments and referrals, and
\* the rows and logs of other nodes.
C33_DeleteNodeFrame ==
    [][last'.op = "delete_node" =>
         LET node_id == last'.http.id
         IN  /\ node_id \notin DOMAIN db'.node_rows
             /\ \A n \in DOMAIN db.node_rows \ {node_id} :
                    /\ n \in DOMAIN db'.node_rows
                    /\ db'.node_rows[n] = db.node_rows[n]
             /\ DOMAIN db'.node_rows \subseteq DOMAIN db.node_rows
             /\ \A l \in DOMAIN db.traffic_logs :
                    IF db.traffic_logs[l].node_id = node_id
                    THEN l \notin DOMAIN db'.traffic_logs
                    ELSE /\ l \in DOMAIN db'.traffic_logs
                         /\ db'.traffic_logs[l] = db.traffic_logs[l]
             /\ DOMAIN db'.traffic_logs \subseteq DOMAIN db.traffic_logs
             /\ db'.daily_traffic = db.daily_traffic
             /\ db'.users = db.users
             /\ db'.payments = db.payments
             /\ db'.referrals = db.referrals
             /\ db'.settings = db.settings
             /\ get_active_clients(db', now') = get_active_clients(db, now)
             /\ \A u \in DOMAIN db.users :
                    get_user_traffic_today(db', u, now') =
                        get_user_traffic_today(db, u, now)
    ]_vars

\* a node has been deleted whose logs were all the logs of a user: the user,
\* at the limit, is still counted and excluded, and the log of the other
\* node is kept
C33_Witness ==
    /\ last.op = "delete_node"
    /\ last.http.id \notin DOMAIN db.node_rows
    /\ db.log_seq = 2
    /\ Cardinality(DOMAIN db.traffic_logs) = 1
    /\ \E u \in DOMAIN db.users :
          /\ \A l \in DOMAIN db.traffic_logs : db.traffic_logs[l].user_id # u
          /\ db.users[u].tier = "free"
          /\ get_user_traffic_today(db, u, now) >= 1048576
          /\ Email(u) \notin get_active_clients(db, now)

-----------------------------------------------------------------------------
(* Claims checked under SpecRegister: the bonuses of one referrer          *)

\* the bonus days of a set of Referral rows, added up
RECURSIVE SumBonus(_)
SumBonus(R) ==
    IF R = {} THEN 0
    ELSE LET r == CHOOSE x \in R : TRUE
         IN  r.bonus_days + SumBonus(R \ {r})

\* C34: when k users have been created with the referral code of A, one
\* after the other or by registrations served concurrently, and none has
\* been deleted, exactly k Referral rows have referrer A and, A's
\* subscription being unexpired throughout, A's expiry is the original one
\* plus the sum of the bonus days of the k rows.
C34_BonusesAccumulate ==
    (1 \in DOMAIN db.users /\ DOMAIN db.users = 1..db.user_seq) =>
        LET referred == {u \in DOMAIN db.users : db.users[u].referred_by = 1}
        IN  /\ Cardinality(ReferralsOf(db, 1)) = Cardinality(referred)
            /\ {r.referred_id : r \in ReferralsOf(db, 1)} = referred
            /\ FromIsoFormat(db.users[1].subscription_expires_at) =
                   FromIsoFormat(OneUser.users[1].subscription_expires_at)
                   + Timedelta(SumBonus(ReferralsOf(db, 1)))

\* two registrations with the code of A, served on two connections, have
\* both been committed
C34_Witness ==
    /\ Cardinality(ReferralsOf(db, 1)) = 2
    /\ DOMAIN db.users = 1..3
    /\ \A c \in Conns :
          \E a \in answers : a.c = c /\ a.n = 0 /\ a.op = "create_user"
                                 /\ a.status = "ok"
    /\ FromIsoFormat(db.users[1].subscription_expires_at) =
           FromIsoFormat(OneUser.users[1].subscription_expires_at) + Timedelta(2)

-----------------------------------------------------------------------------
(* Claims checked under SpecExtend                                         *)

\* the days of a set of answered extend requests, added up
RECURSIVE SumDays(_)
SumDays(A) ==
    IF A = {} THEN 0
    ELSE LET a == CHOOSE x \in A : TRUE
         IN  a.days + SumDays(A \ {a})

\* C35: no extension is lost: when the extend requests for an unexpired
\* user, served on separate connections in any interleaving, have all been
\* answered, the expiry is the original one plus the days of all of them.
C35_NoExtensionLost ==
    (/\ \A c \in Conns : conn[c].pc = "idle"
     /\ now < FromIsoFormat(OneUser.users[1].subscription_expires_at)) =>
        FromIsoFormat(db.users[1].subscription_expires_at) =
            FromIsoFormat(OneUser.users[1].subscription_expires_at)
            + Timedelta(SumDays({a \in answers : a.uid = 1}))

-----------------------------------------------------------------------------
(* Claims checked under SpecBlocked                                        *)

\* C36: confirming a payment never changes a user's status: a blocked user
\* whose pending payment is confirmed gets tier vip and an expiry extended
\* by the days of the payment, and stays blocked; a blocked user is absent
\* from the active clients, and only the block request of an administrator
\* makes a blocked user active again.
C36_ConfirmKeepsStatus ==
    /\ [](\A u \in DOMAIN db.users :
             db.users[u].status # "active" => Email(u) \notin get_active_clients(db, now))
    /\ [][/\ last'.op = "confirm_payment" =>
                /\ DOMAIN db'.users = DOMAIN db.users
                /\ \A u \in DOMAIN db.users : db'.users[u].status = db.users[u].status
                /\ (last'.ok /\ PendingPayment(db, last'.inv) # {}) =>
                      \A p \in PendingPayment(db, last'.inv) :
                          LET u == db.payments[p].user_id
                          IN  /\ db'.users[u].tier = "vip"
                              /\ FromIsoFormat(db'.users[u].subscription_expires_at) =
                                     Max(now, FromIsoFormat(db.users[u].subscription_expires_at))
                                     + Timedelta(db.payments[p].days_added)
           /\ \A u \in DOMAIN db.users \cap DOMAIN db'.users :
                 (db.users[u].status # "active" /\ db'.users[u].status = "active")
                     => last'.op = "block_user" /\ last'.uid = u
       ]_vars

\* the payment of a blocked user has just been confirmed: the user is vip,
\* still blocked and not among the active clients, with the expiry ahead
C36_Witness ==
    /\ last.op = "confirm_payment" /\ last.ok
    /\ \E p \in DOMAIN db.payments :
          /\ db.payments[p].crypto_invoice_id = last.inv
          /\ db.payments[p].status = "paid"
          /\ LET u == db.payments[p].user_id
             IN  /\ db.users[u].status = "blocked"
                 /\ db.users[u].tier = "vip"
                 /\ FromIsoFormat(db.users[u].subscription_expires_at) > now
                 /\ Email(u) \notin get_active_clients(db, now)

====
